---------------------------- MODULE Spec2Model ----------------------------
(***************************************************************************)
(* Verification model of the corpo-em-foco-ia repository.                  *)
(*                                                                         *)
(*   SpecCleanup  : one run of the cleanup-expired-accounts edge function  *)
(*                  (supabase/functions/cleanup-expired-accounts/index.ts) *)
(*   SpecPlan     : requests to the generate-workout-plan edge function    *)
(*                  (supabase/functions/generate-workout-plan/index.ts)    *)
(*   SpecFallback : two calls of createFallbackPlan (same file)            *)
(*   SpecFront    : the WorkoutPlanGenerator component and its tables      *)
(*                  (src/components/WorkoutPlanGenerator.tsx)              *)
(*   SpecForm     : the form of WorkoutPlanGenerator and its requests      *)
(*   SpecBusy     : generateWorkoutPlan and deleteWorkoutPlan, with fair   *)
(*                  answers to their requests                              *)
(*   SpecStreak   : the WorkoutStreak component (same file)                *)
(*   SpecLevel    : the level display of GamificationSection               *)
(*                  (src/components/onboarding/OnboardingChecklist.tsx)    *)
(*   SpecOnboarding : the OnboardingChecklist component (same file)        *)
(*   SpecGamification : the achievements of GamificationSection (same      *)
(*                  file)                                                  *)
(***************************************************************************)
EXTENDS Integers, Sequences, FiniteSets, TLC

(***************************************************************************)
(* Bounds of the model.                                                    *)
(***************************************************************************)
\* largest number of subscription rows one user owns
MaxSubs == 2

\* the auth users that may exist, in the order the admin API lists them
UserOrder == <<"u1", "u2">>
UserIds == {UserOrder[i] : i \in 1..Len(UserOrder)}

\* clock readings (hours) a run may start at, and the row timestamps around
\* the 48 hour limit and around the run's start
NowValues == {50, 51}
CreatedAts == {1, 2, 3}

NULL == "null"

(***************************************************************************)
(* cleanup-expired-accounts: data                                          *)
(***************************************************************************)
\* 48 * 60 * 60 * 1000 ms, in hours
ExpireHours == 48

\* page size of auth.admin.listUsers (1000 in the source, scaled to the
\* size of UserOrder so that full, short and empty pages all occur)
perPage == 2

\* the kinds of subscription row: status and expires_at (hours)
RowKinds ==
  { [status |-> "active",    expires_at |-> 50],
    [status |-> "active",    expires_at |-> 52],
    [status |-> "expired",   expires_at |-> 50],
    [status |-> "cancelled", expires_at |-> 50],
    [status |-> "pending",   expires_at |-> 52] }

RECURSIVE SumOver(_, _)
SumOver(f, S) ==
  IF S = {} THEN 0
  ELSE LET k == CHOOSE x \in S : TRUE IN f[k] + SumOver(f, S \ {k})

\* the rows of one user in subscriptions: how many rows of each kind
NoRows == [k \in RowKinds |-> 0]
RowBags == { b \in [RowKinds -> 0..MaxSubs] : SumOver(b, RowKinds) <= MaxSubs }

\* statuses of a subscription that was paid for
PaidStatuses == {"active", "expired", "cancelled"}

VARIABLES
  authUsers,       \* auth.users: the rows [id, created_at]
  subscriptions,   \* subscriptions: user id -> rows of that user
  cpc,             \* position of the cleanup run
  now,             \* const now = new Date()
  limitDate,       \* const limitDate
  allUsers,        \* fallback path: users collected so far
  page,            \* fallback path: page to fetch next
  usersToCheck,    \* var usersToCheck
  totalUsersCount, \* var totalUsersCount
  idx,             \* position of the for-of loop in usersToCheck
  deletedCount,    \* let deletedCount
  cleanupResponse, \* the Response the run returned
  path,            \* "direct" or "admin": which user listing the run used
  callFailed,      \* history: some database or auth call of the run failed
  deletedLog       \* history: the accounts the run deleted from auth

cleanupVars == <<authUsers, subscriptions, cpc, now, limitDate, allUsers, page,
                 usersToCheck, totalUsersCount, idx, deletedCount,
                 cleanupResponse, path, callFailed, deletedLog>>

VARIABLES
  ppc,             \* position of the generate-workout-plan handler
  request,         \* the request being served, with the outcomes of its calls
  planResponse     \* the Response the handler returned

planVars == <<ppc, request, planResponse>>

VARIABLES
  fpc,             \* how many of the two createFallbackPlan calls were made
  profile1,        \* userProfile of the first call
  profile2,        \* userProfile of the second call
  result1,         \* what the first call returned
  result2          \* what the second call returned

fallbackVars == <<fpc, profile1, profile2, result1, result2>>

VARIABLES
  user,               \* prop user: the id of the logged-in user, or NULL
  workoutPlan,        \* prop workoutPlan: the current plan, or NoPlan
  progressMap,        \* state progressMap: item_identifier -> is_completed
  activeTab,          \* state activeTab
  loading,            \* state loading
  deleting,           \* state deleting
  user_workout_plans, \* table user_workout_plans: the plan_data of the user's rows
  plan_progress,      \* table plan_progress: its rows
  toggles,            \* handleProgressChange calls waiting for their upsert
  loads,              \* plan titles whose getPlanProgress is waiting
  gpc,                \* position of generateWorkoutPlan
  genOldPlanId,       \* workoutPlan?.title in the closure of generateWorkoutPlan
  genPlan,            \* the plan generateWorkoutPlan got from the function
  dpc,                \* position of deleteWorkoutPlan
  delPlanId,          \* planId in the closure of deleteWorkoutPlan
  lastEvent,          \* history: what the last step did
  deleteFailed,       \* history: a delete on user_workout_plans answered with an error
  formData,           \* state formData: the required fields of the form
  otherGoalsText,     \* state otherGoalsText
  invokeBody,         \* the body of the functions.invoke in flight, or NoBody
  genReplaced         \* history: the plan titles the running generation replaces

frontVars == <<user, workoutPlan, progressMap, activeTab, loading, deleting,
               user_workout_plans, plan_progress, toggles, loads, gpc,
               genOldPlanId, genPlan, dpc, delPlanId, lastEvent,
               deleteFailed, formData, otherGoalsText, invokeBody, genReplaced>>

VARIABLES
  spc,           \* position of WorkoutStreak: "off", "mounted", "done"
  streakUser,    \* prop user of WorkoutStreak, or NULL
  completedDays, \* the local days of created_at of the user's completed rows
  today,         \* the local day the component runs on
  nowHour,       \* the hour of that day
  shortDay,      \* the day the clocks go forward on (23 hours), or NoShortDay
  streakData,    \* state streakData
  streakLoading  \* state loading of WorkoutStreak

streakVars == <<spc, streakUser, completedDays, today, nowHour, shortDay,
                streakData, streakLoading>>

VARIABLES
  lpc,       \* position of the level display: "off", "xp", "rendered"
  userXP,    \* state userXP of GamificationSection
  levelView  \* currentLevelData, nextLevel and progressToNext of the render

levelVars == <<lpc, userXP, levelView>>

VARIABLES
  opc,              \* "off" or "on": OnboardingChecklist is mounted
  onbUser,          \* prop user of OnboardingChecklist: Null or its metadata
  isVisible,        \* prop isVisible
  steps,            \* state steps: step id -> completed
  runs,             \* the checkCompletedSteps runs waiting at an await
  user_profiles,    \* the user's row of user_profiles, or Null
  profileForm,      \* the row the user's profile form saves
  hasWorkoutPlan,   \* the user has a row in user_workout_plans
  hasProgress,      \* the user has a row in user_progress
  hasNutrition,     \* the user has an ai_conversations row of type nutrition
  lastRun           \* history: what the last run that reached setSteps read

onboardingVars == <<opc, onbUser, isVisible, steps, runs, user_profiles,
                    profileForm, hasWorkoutPlan, hasProgress, hasNutrition,
                    lastRun>>

VARIABLES
  mpc,                  \* position of loadGamificationData, "off" if unmounted
  gamUser,              \* prop user of GamificationSection, or NULL
  user_gamification,    \* the user's row of user_gamification, or NoGamRow
  completedItems,       \* number of the user's completed plan_progress rows
  clock,                \* the time, in half days
  unlockedAchievements, \* state unlockedAchievements
  gamXP,                \* state userXP of the section
  closureUnlocked,      \* unlockedAchievements in the closure of the effect
  gamificationData,     \* the row loadGamificationData read
  pendingUpsert,        \* the row updateGamificationData is writing
  rewardCount           \* history: how often each reward went into total_xp

gamificationVars == <<mpc, gamUser, user_gamification, completedItems, clock,
                      unlockedAchievements, gamXP, closureUnlocked,
                      gamificationData, pendingUpsert, rewardCount>>

vars == <<cleanupVars, planVars, fallbackVars, frontVars, streakVars, levelVars, onboardingVars, gamificationVars>>

\* the variables each component leaves alone
notCleanup == <<planVars, fallbackVars, frontVars, streakVars, levelVars, onboardingVars, gamificationVars>>
notPlan == <<cleanupVars, fallbackVars, frontVars, streakVars, levelVars, onboardingVars, gamificationVars>>
notFallback == <<cleanupVars, planVars, frontVars, streakVars, levelVars, onboardingVars, gamificationVars>>
notFront == <<cleanupVars, planVars, fallbackVars, streakVars, levelVars, onboardingVars, gamificationVars>>
notStreak == <<cleanupVars, planVars, fallbackVars, frontVars, levelVars, onboardingVars, gamificationVars>>
notLevel == <<cleanupVars, planVars, fallbackVars, frontVars, streakVars, onboardingVars, gamificationVars>>
notOnboarding == <<cleanupVars, planVars, fallbackVars, frontVars, streakVars, levelVars, gamificationVars>>
notGamification == <<cleanupVars, planVars, fallbackVars, frontVars, streakVars, levelVars, onboardingVars>>

(***************************************************************************)
(* cleanup-expired-accounts: queries                                       *)
(***************************************************************************)
\* the user rows [id, created_at] of the ids in order
UserRows(users) ==
  LET ids == SelectSeq(UserOrder, LAMBDA u : \E r \in users : r.id = u)
  IN  [i \in 1..Len(ids) |-> CHOOSE r \in users : r.id = ids[i]]

\* new Date(now.getTime() - 48 * 60 * 60 * 1000)
limitDateOf(t) == t - ExpireHours

\* .from('auth.users').select(...).lt('created_at', limitDate)
expiredUsersQuery(users, limit) ==
  SelectSeq(UserRows(users), LAMBDA r : r.created_at < limit)

\* auth.admin.listUsers({page, perPage})
listUsers(users, p, per) ==
  LET rows == UserRows(users)
      first == (p - 1) * per + 1
      last  == IF p * per < Len(rows) THEN p * per ELSE Len(rows)
  IN  IF first > Len(rows) THEN <<>> ELSE SubSeq(rows, first, last)

\* a filter that also takes the accounts created at the limit
filteredUsers_AtLimit(all, limit) ==
  SelectSeq(all, LAMBDA r : r.created_at <= limit)

\* allUsers.filter(user => new Date(user.created_at) < limitDate)
filteredUsers(all, limit) ==
  SelectSeq(all, LAMBDA r : r.created_at < limit)

\* number of rows matching .eq('status','active').gte('expires_at', now)
activeRowCount(bag, t) ==
  SumOver(bag, {k \in RowKinds : k.status = "active" /\ k.expires_at >= t})

\* number of rows matching .in('status', ['active','expired','cancelled'])
paidRowCount(bag) ==
  SumOver(bag, {k \in RowKinds : k.status \in PaidStatuses})

\* .maybeSingle() of supabase-js: no row gives data null without error, one
\* row gives the row, several rows give data null and the error PGRST116
\* ("JSON object requested, multiple (or no) rows returned")
maybeSingle(n) ==
  IF n = 0 THEN [data |-> FALSE, error |-> NULL]
  ELSE IF n = 1 THEN [data |-> TRUE, error |-> NULL]
  ELSE [data |-> FALSE, error |-> "PGRST116"]

\* a query that failed for another reason (network, permissions)
queryFailure == [data |-> FALSE, error |-> "500"]

\* the decision of one loop iteration from the two query results:
\* "error" and "keep" are the continue statements, "delete" falls through
loopDecision(activeRes, anyRes) ==
  IF activeRes.error # NULL /\ activeRes.error # "PGRST116" THEN "error"
  ELSE IF activeRes.data THEN "keep"
  ELSE IF anyRes.error # NULL /\ anyRes.error # "PGRST116" THEN "error"
  ELSE IF anyRes.data THEN "keep"
  ELSE "delete"

(***************************************************************************)
(* cleanup-expired-accounts: the run                                       *)
(***************************************************************************)
CleanupInit ==
  /\ \E ids \in SUBSET UserIds, created \in [UserIds -> CreatedAts] :
       authUsers = {[id |-> u, created_at |-> created[u]] : u \in ids}
  /\ subscriptions \in [UserIds -> RowBags]
  /\ \A u \in UserIds :
       (\A r \in authUsers : r.id # u) => subscriptions[u] = NoRows
  /\ cpc = "idle"
  /\ now = 0
  /\ limitDate = 0
  /\ allUsers = <<>>
  /\ page = 1
  /\ usersToCheck = <<>>
  /\ totalUsersCount = 0
  /\ idx = 1
  /\ deletedCount = 0
  /\ cleanupResponse = NULL
  /\ path = NULL
  /\ callFailed = FALSE
  /\ deletedLog = {}

\* lines 24-35 and 84-88: read the clock, try the direct query
StartRun ==
  /\ UNCHANGED notCleanup
  /\ cpc = "idle"
  /\ \E t \in NowValues, ok \in BOOLEAN :
       /\ now' = t
       /\ limitDate' = limitDateOf(t)
       /\ IF ok
          THEN /\ usersToCheck' = expiredUsersQuery(authUsers, limitDateOf(t))
               /\ totalUsersCount' = Len(usersToCheck')
               /\ path' = "direct"
               /\ cpc' = "loop"
          ELSE /\ path' = "admin"
               /\ cpc' = "paging"
               /\ UNCHANGED <<usersToCheck, totalUsersCount>>
  /\ UNCHANGED <<authUsers, subscriptions, allUsers, page, idx, deletedCount,
                 cleanupResponse, callFailed, deletedLog>>

\* lines 43-83: one turn of the while loop; the filter runs once it breaks
ListUsersPage ==
  /\ UNCHANGED notCleanup
  /\ cpc = "paging"
  /\ \E ok \in BOOLEAN :
       IF ~ok
       THEN \* throw authError, caught at line 179
            /\ cpc' = "done"
            /\ callFailed' = TRUE
            /\ cleanupResponse' = [status |-> 500, success |-> FALSE]
            /\ UNCHANGED <<allUsers, page, usersToCheck, totalUsersCount>>
       ELSE LET users == listUsers(authUsers, page, perPage)
                all   == IF Len(users) = 0 THEN allUsers ELSE allUsers \o users
            IN  /\ allUsers' = all
                /\ IF Len(users) = 0 \/ Len(users) < perPage
                   THEN /\ usersToCheck' = filteredUsers(all, limitDate)
                        /\ totalUsersCount' = Len(all)
                        /\ cpc' = "loop"
                        /\ page' = page
                   ELSE /\ page' = page + 1
                        /\ UNCHANGED <<usersToCheck, totalUsersCount, cpc>>
                /\ UNCHANGED <<callFailed, cleanupResponse>>
  /\ UNCHANGED <<authUsers, subscriptions, now, limitDate, idx, deletedCount,
                 path, deletedLog>>

\* what may go wrong in one loop iteration
IterationFaults ==
  {"none", "activeQuery", "anyQuery", "relatedDelete", "deleteUser"}

\* a count that goes up on the error branch instead
countAfterDelete_Swapped(count, deleteAuthError) ==
  IF deleteAuthError THEN count + 1 ELSE count

\* deletedCount after auth.admin.deleteUser answered
countAfterDelete(count, deleteAuthError) ==
  IF deleteAuthError THEN count ELSE count + 1

\* lines 92-161: one iteration of the for-of loop
CheckUser ==
  /\ UNCHANGED notCleanup
  /\ cpc = "loop"
  /\ idx <= Len(usersToCheck)
  /\ \E fault \in IterationFaults :
       LET authUser      == usersToCheck[idx]
           bag       == subscriptions[authUser.id]
           activeRes == IF fault = "activeQuery" THEN queryFailure
                        ELSE maybeSingle(activeRowCount(bag, now))
           anyRes    == IF fault = "anyQuery" THEN queryFailure
                        ELSE maybeSingle(paidRowCount(bag))
           decision  == loopDecision(activeRes, anyRes)
       IN  \* a fault happens only in a call the iteration gets to
           /\ fault = "anyQuery" => ~activeRes.data
           /\ fault \in {"relatedDelete", "deleteUser"} => decision = "delete"
           /\ callFailed' = (callFailed \/ fault # "none")
           /\ IF decision # "delete"
              THEN UNCHANGED <<authUsers, subscriptions, deletedCount, deletedLog>>
              ELSE IF fault = "relatedDelete"
              THEN \* a delete of the related data throws: caught at line 158
                   UNCHANGED <<authUsers, subscriptions, deletedCount, deletedLog>>
              ELSE /\ subscriptions' = [subscriptions EXCEPT ![authUser.id] = NoRows]
                   /\ deletedCount' = countAfterDelete(deletedCount, fault = "deleteUser")
                   /\ IF fault = "deleteUser"
                      THEN UNCHANGED <<authUsers, deletedLog>>
                      ELSE /\ authUsers' = {r \in authUsers : r.id # authUser.id}
                           /\ deletedLog' = deletedLog \cup
                                {[id |-> authUser.id, created_at |-> authUser.created_at,
                                  paidRows |-> paidRowCount(bag)]}
  /\ idx' = idx + 1
  /\ UNCHANGED <<cpc, now, limitDate, allUsers, page, usersToCheck,
                 totalUsersCount, cleanupResponse, path>>

\* lines 163-178: the loop is over, answer
FinishRun ==
  /\ UNCHANGED notCleanup
  /\ cpc = "loop"
  /\ idx > Len(usersToCheck)
  /\ cpc' = "done"
  /\ cleanupResponse' = [status |-> 200, success |-> TRUE,
                         deletedCount |-> deletedCount,
                         checkedUsers |-> Len(usersToCheck),
                         totalUsers |-> totalUsersCount]
  /\ UNCHANGED <<authUsers, subscriptions, now, limitDate, allUsers, page,
                 usersToCheck, totalUsersCount, idx, deletedCount, path,
                 callFailed, deletedLog>>

CleanupIdle ==
  /\ authUsers = {}
  /\ subscriptions = [u \in UserIds |-> NoRows]
  /\ cpc = "off"
  /\ now = 0
  /\ limitDate = 0
  /\ allUsers = <<>>
  /\ page = 1
  /\ usersToCheck = <<>>
  /\ totalUsersCount = 0
  /\ idx = 1
  /\ deletedCount = 0
  /\ cleanupResponse = NULL
  /\ path = NULL
  /\ callFailed = FALSE
  /\ deletedLog = {}

CleanupNext == StartRun \/ ListUsersPage \/ CheckUser \/ FinishRun

(***************************************************************************)
(* generate-workout-plan: JSON values                                      *)
(*                                                                         *)
(* A string is the sequence of the parts a template literal concatenates;  *)
(* the empty string is the empty sequence.  In a userProfile the falsy     *)
(* values undefined, null, '' and 0 are read through || everywhere, so ""  *)
(* and 0 stand for all of them.                                            *)
(***************************************************************************)
Undef == [t |-> "undefined"]
Null == [t |-> "null"]
Str(parts) == [t |-> "string", v |-> parts]
Num(n) == [t |-> "number", v |-> n]
Arr(elems) == [t |-> "array", v |-> elems]
Obj(fields) == [t |-> "object", v |-> fields]

\* JavaScript truthiness, as ! and || read it
Truthy(x) ==
  CASE x.t = "undefined" -> FALSE
    [] x.t = "null" -> FALSE
    [] x.t = "string" -> x.v # <<>>
    [] x.t = "number" -> x.v # 0
    [] OTHER -> TRUE

\* Array.isArray
IsArray(x) == x.t = "array"

\* largest available_days a request carries (the form offers 1..7)
MaxDays == 8

\* the request without a userProfile
NullProfile ==
  [present |-> FALSE, fitness_level |-> "", fitness_goals |-> <<>>,
   available_days |-> 0, age |-> 0, session_duration |-> 0]

FitnessLevels == {"", "sedentario", "moderado", "avancado", "atleta"}
GoalLists == {<<>>, <<"perder_peso">>, <<"perder_peso", "forca">>,
              <<"outros: correr", "forca">>, <<"constructor">>}

Profiles ==
  [present : {TRUE}, fitness_level : FitnessLevels, fitness_goals : GoalLists,
   available_days : 0..MaxDays, age : {25, 40}, session_duration : {0, 45}]

(***************************************************************************)
(* generate-workout-plan: mapFitnessLevelToDifficulty, createFallbackPlan  *)
(***************************************************************************)
\* the case where no label of the switch matches
DefaultDifficulty == "iniciante"

\* a switch whose default returns its argument
mapFitnessLevelToDifficulty_PassThrough(fitnessLevel) ==
  CASE fitnessLevel \in {"sedentario", "pouco_ativo", "iniciante"} -> "iniciante"
    [] fitnessLevel \in {"moderado", "ativo", "intermediario"} -> "intermediario"
    [] fitnessLevel \in {"muito_ativo", "avancado"} -> "avancado"
    [] OTHER -> fitnessLevel

mapFitnessLevelToDifficulty(fitnessLevel) ==
  CASE fitnessLevel \in {"sedentario", "pouco_ativo", "iniciante"} -> "iniciante"
    [] fitnessLevel \in {"moderado", "ativo", "intermediario"} -> "intermediario"
    [] fitnessLevel \in {"muito_ativo", "avancado"} -> "avancado"
    [] OTHER -> DefaultDifficulty

goalsDescription ==
  [g \in {"perder_peso", "ganhar_massa", "tonificar", "condicionamento",
          "forca", "flexibilidade", "geral", "hipertrofia"} |->
     CASE g = "perder_peso" -> "perda de peso e queima de gordura"
       [] g = "ganhar_massa" -> "ganho de massa muscular"
       [] g = "tonificar" -> "tonificacao corporal"
       [] g = "condicionamento" -> "melhora do condicionamento fisico"
       [] g = "forca" -> "aumento da forca"
       [] g = "flexibilidade" -> "melhora da flexibilidade"
       [] g = "geral" -> "condicionamento geral"
       [] g = "hipertrofia" -> "ganho de massa muscular e hipertrofia"]

\* names every object inherits: goalsDescription[name] is then a function,
\* which is truthy and has no charAt
InheritedKeys == {"constructor", "toString", "valueOf", "hasOwnProperty"}

weekNames ==
  <<"PRIMEIRA", "SEGUNDA", "TERCEIRA", "QUARTA", "QUINTA", "SEXTA", "SETIMA",
    "OITAVA", "NONA", "DECIMA", "DECIMA PRIMEIRA", "DECIMA SEGUNDA">>

dayLetters == <<"A", "B", "C", "D", "E", "F", "G">>

\* letters only for the days exercisesByDay knows
dayLetter_FiveDays(day) == IF day <= 5 THEN dayLetters[day] ELSE "undefined"

\* dayLetters[day]: undefined beyond the array
dayLetter(day) == IF day <= Len(dayLetters) THEN dayLetters[day] ELSE "undefined"

exercisesByDay ==
  [l \in {"A", "B", "C", "D", "E"} |->
     CASE l = "A" -> <<"Agachamento Livre", "Flexao de Braco", "Prancha Isometrica">>
       [] l = "B" -> <<"Afundo Alternado", "Flexao Inclinada", "Ponte Glutea">>
       [] l = "C" -> <<"Agachamento Sumo", "Flexao Diamante", "Mountain Climber">>
       [] l = "D" -> <<"Agachamento Bulgaro", "Flexao Declinada", "Prancha Lateral">>
       [] l = "E" -> <<"Agachamento Jump", "Flexao Hindu", "Burpee Modificado">>]

\* exercisesByDay[dayLetter] || exercisesByDay['A']
dayExercises(letter) ==
  IF letter \in DOMAIN exercisesByDay THEN exercisesByDay[letter]
  ELSE exercisesByDay["A"]

\* s.charAt(0).toUpperCase() + s.slice(1)
capitalize(s) ==
  CASE s = "iniciante" -> "Iniciante"
    [] s = "intermediario" -> "Intermediario"
    [] s = "avancado" -> "Avancado"
    [] s = "perda de peso e queima de gordura" -> "Perda de peso e queima de gordura"
    [] s = "ganho de massa muscular" -> "Ganho de massa muscular"
    [] s = "tonificacao corporal" -> "Tonificacao corporal"
    [] s = "melhora do condicionamento fisico" -> "Melhora do condicionamento fisico"
    [] s = "aumento da forca" -> "Aumento da forca"
    [] s = "melhora da flexibilidade" -> "Melhora da flexibilidade"
    [] s = "condicionamento geral" -> "Condicionamento geral"
    [] s = "ganho de massa muscular e hipertrofia" -> "Ganho de massa muscular e hipertrofia"
    [] OTHER -> s

\* the warm-up entry pushed at lines 410-416
warmupEntry(week, letter, difficultyLevel) ==
  [name |-> <<weekNames[week], " SEMANA - Aquecimento (Treino ", letter, ")">>,
   sets |-> 1,
   reps |-> "8-10 minutos",
   rest |-> "N/A",
   instructions |-> <<"Aquecimento especifico para Treino ", letter, ": ... ",
                      weekNames[week], " SEMANA: ... nivel ", difficultyLevel, ".">>]

\* the entry pushed at lines 430-436 for dayExercises[index], index from 0
exerciseEntry(week, letter, exerciseName, index, goalDesc, difficultyLevel) ==
  [name |-> <<weekNames[week], " SEMANA - Treino ", letter, ": ", exerciseName>>,
   sets |-> IF week <= 4 THEN 2 + index ELSE 3 + index,
   reps |-> IF week <= 4 THEN "8-10" ELSE "10-15",
   rest |-> "60-90s",
   instructions |-> <<"EXECUCAO TECNICA: ... ", exerciseName, ". ", weekNames[week],
                      " SEMANA: ... ", goalDesc, ". ... nivel ", difficultyLevel, ".">>]

\* the body of the inner for loop: what one day pushes
dayEntries(week, day, goalDesc, difficultyLevel) ==
  LET letter == dayLetter(day)
      names  == dayExercises(letter)
  IN  <<warmupEntry(week, letter, difficultyLevel)>> \o
      [i \in 1..Len(names) |->
         exerciseEntry(week, letter, names[i], i - 1, goalDesc, difficultyLevel)]

RECURSIVE dayLoop(_, _, _, _, _)
\* for (let day = 1; day <= availableDays; day++): what the days from day
\* on push, in order
dayLoop(week, day, availableDays, goalDesc, difficultyLevel) ==
  IF day <= availableDays
  THEN dayEntries(week, day, goalDesc, difficultyLevel) \o
       dayLoop(week, day + 1, availableDays, goalDesc, difficultyLevel)
  ELSE <<>>

\* number of weeks of the fallback plan (the bound of the outer loop)
PlanWeeks == 12

RECURSIVE weekLoop(_, _, _, _)
\* for (let week = 1; week <= 12; week++): what the weeks from week on push
weekLoop(week, availableDays, goalDesc, difficultyLevel) ==
  IF week <= PlanWeeks
  THEN dayLoop(week, 1, availableDays, goalDesc, difficultyLevel) \o
       weekLoop(week + 1, availableDays, goalDesc, difficultyLevel)
  ELSE <<>>

\* userProfile?.fitness_level || 'iniciante'
fallbackLevel(userProfile) ==
  IF userProfile.present /\ userProfile.fitness_level # ""
  THEN userProfile.fitness_level ELSE "iniciante"

\* the last goal instead of the first
fallbackGoals_Last(userProfile) ==
  IF userProfile.present /\ userProfile.fitness_goals # <<>>
  THEN userProfile.fitness_goals[Len(userProfile.fitness_goals)]
  ELSE "condicionamento geral"

\* userProfile?.fitness_goals?.[0] || 'condicionamento geral'
fallbackGoals(userProfile) ==
  IF userProfile.present /\ userProfile.fitness_goals # <<>>
  THEN userProfile.fitness_goals[1] ELSE "condicionamento geral"

\* userProfile?.available_days || 3
fallbackDays(userProfile) ==
  IF userProfile.present /\ userProfile.available_days # 0
  THEN userProfile.available_days ELSE 3

\* goalsDescription[goals] || 'condicionamento geral'
fallbackGoalDesc(goals) ==
  IF goals \in DOMAIN goalsDescription THEN goalsDescription[goals]
  ELSE "condicionamento geral"

\* createFallbackPlan throws at goalDesc.charAt when goalDesc is not a string
fallbackThrows(userProfile) == fallbackGoals(userProfile) \in InheritedKeys

nutritionTips ==
  <<"PRIMEIRA E SEGUNDA SEMANA: Proteina pos-treino moderada",
    "TERCEIRA SEMANA: Aumento para 25-30g de proteina",
    "Hidratacao progressiva", "Carboidratos pre-treino",
    "Timing nutricional", "Sono reparador", "Suplementacao basica">>

\* createFallbackPlan(userProfile), when it returns
createFallbackPlan(userProfile) ==
  LET level           == fallbackLevel(userProfile)
      goals           == fallbackGoals(userProfile)
      availableDays   == fallbackDays(userProfile)
      difficultyLevel == mapFitnessLevelToDifficulty(level)
      goalDesc        == fallbackGoalDesc(goals)
  IN  [title |-> Str(<<"Plano Periodizado ", capitalize(difficultyLevel), " - ",
                       capitalize(goalDesc)>>),
       description |-> Str(<<"Plano periodizado de 12 semanas especifico para ",
                             goalDesc, " para nivel ", difficultyLevel, ", com ",
                             availableDays, " sessoes semanais. ...">>),
       difficulty_level |-> Str(<<difficultyLevel>>),
       duration_weeks |-> Num(12),
       source |-> Str(<<"fallback">>),
       exercises |-> Arr(weekLoop(1, availableDays, goalDesc, difficultyLevel)),
       nutrition_tips |-> Arr(nutritionTips)]

(***************************************************************************)
(* createFallbackPlan called twice                                         *)
(***************************************************************************)
\* the profiles the form can send: no inherited key among the goals
FormProfiles == {p \in Profiles : p.fitness_goals # <<"constructor">>}

\* the two profiles agree on what createFallbackPlan reads
SameFallbackInput(p, q) ==
  /\ p.fitness_level = q.fitness_level
  /\ (IF p.fitness_goals = <<>> THEN "" ELSE p.fitness_goals[1]) =
     (IF q.fitness_goals = <<>> THEN "" ELSE q.fitness_goals[1])
  /\ p.available_days = q.available_days

NotCalled == [called |-> FALSE]

FallbackInit ==
  /\ fpc = 0
  /\ profile1 \in FormProfiles
  /\ profile2 \in {q \in FormProfiles : SameFallbackInput(profile1, q)}
  /\ result1 = NotCalled
  /\ result2 = NotCalled

FallbackIdle ==
  /\ fpc = 2
  /\ profile1 = NullProfile
  /\ profile2 = NullProfile
  /\ result1 = NotCalled
  /\ result2 = NotCalled

FirstCall ==
  /\ UNCHANGED notFallback
  /\ fpc = 0
  /\ fpc' = 1
  /\ result1' = [called |-> TRUE, plan |-> createFallbackPlan(profile1)]
  /\ UNCHANGED <<profile1, profile2, result2>>

SecondCall ==
  /\ UNCHANGED notFallback
  /\ fpc = 1
  /\ fpc' = 2
  /\ result2' = [called |-> TRUE, plan |-> createFallbackPlan(profile2)]
  /\ UNCHANGED <<profile1, profile2, result1>>

FallbackNext == FirstCall \/ SecondCall

(***************************************************************************)
(* generate-workout-plan: the requests                                     *)
(***************************************************************************)
\* Deno.env.get('GROQ_API_KEY'): undefined, or a string as its characters
NoKey == [defined |-> FALSE, chars |-> <<>>]
KeyOf(chars) == [defined |-> TRUE, chars |-> chars]
MissingKeys == {NoKey, KeyOf(<<>>), KeyOf(<<" ">>), KeyOf(<<" ", " ">>)}
SetKeys == {KeyOf(<<"g", "k">>), KeyOf(<<" ", "g", " ">>)}

RECURSIVE trimStart(_)
trimStart(chars) ==
  IF chars # <<>> /\ Head(chars) = " " THEN trimStart(Tail(chars)) ELSE chars

RECURSIVE trimEnd(_)
trimEnd(chars) ==
  IF chars # <<>> /\ chars[Len(chars)] = " "
  THEN trimEnd(SubSeq(chars, 1, Len(chars) - 1)) ELSE chars

\* String.prototype.trim
trim(chars) == trimEnd(trimStart(chars))

\* !groqApiKey || groqApiKey.trim() === ''
keyNotConfigured(groqApiKey) ==
  \/ ~groqApiKey.defined
  \/ groqApiKey.chars = <<>>
  \/ trim(groqApiKey.chars) = <<>>

\* what the model may answer with: text that is no JSON, or a JSON value
Garbage == [t |-> "garbage"]
SampleEntry ==
  [name |-> <<"PRIMEIRA", " SEMANA - Treino ", "A", ": ", "Supino">>,
   sets |-> 3, reps |-> "8-12", rest |-> "90-120s", instructions |-> <<"...">>]
PlanTitles == {Undef, Str(<<>>), Str(<<"Plano Groq">>)}
PlanExercises == {Undef, Str(<<"nenhum">>), Arr(<<>>), Arr(<<SampleEntry>>)}
PlanDifficulties == {Undef, Str(<<>>), Str(<<"avancado">>), Str(<<"expert">>)}
PlanDurations == {Undef, Num(12), Num(8)}
PlanObjects ==
  {Obj(f) : f \in [title : PlanTitles, exercises : PlanExercises,
                   difficulty_level : PlanDifficulties,
                   duration_weeks : PlanDurations]}
Payloads == {Garbage, Null, Num(5), Str(<<"ok">>), Arr(<<>>)} \cup PlanObjects

\* the content of the first choice: its text kind, its code fence and what
\* stands inside
NoContent == [text |-> "empty", fence |-> "none", payload |-> Garbage]
Contents ==
  [text : {"empty", "blank"}, fence : {"none"}, payload : {Garbage}]
  \cup [text : {"text"}, fence : {"none"}, payload : Payloads]
  \cup [text : {"text"},
        fence : {"json", "json_unclosed", "plain", "plain_unclosed"},
        payload : {Garbage,
                   Obj([title |-> Str(<<"Plano Groq">>), exercises |-> Arr(<<>>),
                        difficulty_level |-> Str(<<"avancado">>),
                        duration_weeks |-> Num(12)])}]

\* what the call of the model does: fetch throws, answers non-OK, answers
\* OK with a body that is no JSON, or answers OK with a content
NoLLM == [fetch |-> "unused", content |-> NoContent]
LLMOutcomes ==
  [fetch : {"throws", "notOk", "badJson"}, content : {NoContent}]
  \cup [fetch : {"ok"}, content : Contents]

PlanProfiles == {p \in Profiles : p.age = 25}
SmallProfiles ==
  {p \in PlanProfiles :
     /\ p.available_days \in {0, 2}
     /\ p.fitness_goals \in {<<>>, <<"perder_peso">>, <<"constructor">>}}

Requests ==
  [method : {"OPTIONS"}, bodyOk : {TRUE}, userProfile : {NullProfile},
   groqApiKey : {NoKey}, llm : {NoLLM}]
  \cup [method : {"POST"}, bodyOk : {FALSE}, userProfile : {NullProfile},
        groqApiKey : {NoKey, KeyOf(<<"g", "k">>)}, llm : {NoLLM}]
  \cup [method : {"POST"}, bodyOk : {TRUE},
        userProfile : PlanProfiles \cup {NullProfile},
        groqApiKey : MissingKeys, llm : {NoLLM}]
  \cup [method : {"POST"}, bodyOk : {TRUE},
        userProfile : SmallProfiles \cup {NullProfile},
        groqApiKey : SetKeys, llm : LLMOutcomes]

(***************************************************************************)
(* generate-workout-plan: the handler                                      *)
(***************************************************************************)
Thrown == [threw |-> TRUE]
Returned(plan) == [threw |-> FALSE, plan |-> plan]

\* a call of createFallbackPlan inside the try block
callFallback(userProfile) ==
  IF fallbackThrows(userProfile) THEN Thrown
  ELSE Returned(createFallbackPlan(userProfile))

\* lines 272-286: trim and take what stands inside a closed code fence; an
\* unclosed fence stays in the text
extractJson(content) ==
  IF content.fence \in {"json_unclosed", "plain_unclosed"} THEN Garbage
  ELSE content.payload

\* JSON.parse: a SyntaxError on text that is no JSON
JSONparse(text) ==
  IF text = Garbage THEN [ok |-> FALSE] ELSE [ok |-> TRUE, value |-> text]

validLevels == {"iniciante", "intermediario", "avancado"}

\* lines 294-297 on a parsed object
fixedDifficulty(fields, userProfile) ==
  IF \/ ~Truthy(fields.difficulty_level)
     \/ fields.difficulty_level \notin {Str(<<l>>) : l \in validLevels}
  THEN Str(<<mapFitnessLevelToDifficulty(userProfile.fitness_level)>>)
  ELSE fields.difficulty_level

\* line 300 on a parsed object: the structure is invalid
invalidStructure(fields) ==
  \/ ~Truthy(fields.title)
  \/ ~Truthy(fields.exercises)
  \/ ~IsArray(fields.exercises)

\* lines 289-313 throw: no JSON, null (property read), a primitive
\* (property write in strict mode), or an array or object without a title
\* or exercises array
parseBlockThrows(parsed) ==
  \/ ~parsed.ok
  \/ parsed.value.t # "object"
  \/ invalidStructure(parsed.value.v)

\* the plan of lines 290-313 when nothing throws
groqPlan(fields, userProfile) ==
  [title |-> fields.title,
   difficulty_level |-> fixedDifficulty(fields, userProfile),
   duration_weeks |-> fields.duration_weeks,
   source |-> Str(<<"groq_api">>),
   exercises |-> fields.exercises,
   generated_for |->
     [days |-> IF userProfile.available_days # 0
               THEN userProfile.available_days ELSE 3,
      duration |-> IF userProfile.session_duration # 0
                   THEN userProfile.session_duration ELSE 60]]

\* lines 16-336: the try block, up to the plan it returns or to a throw
tryBlock(req) ==
  IF ~req.bodyOk THEN Thrown
  ELSE IF keyNotConfigured(req.groqApiKey) THEN callFallback(req.userProfile)
  ELSE IF ~req.userProfile.present THEN Thrown
  ELSE IF req.llm.fetch = "throws" THEN Thrown
  ELSE IF req.llm.fetch = "notOk" THEN callFallback(req.userProfile)
  ELSE IF req.llm.fetch = "badJson" THEN Thrown
  ELSE IF req.llm.content.text \in {"empty", "blank"}
       THEN callFallback(req.userProfile)
  ELSE LET parsed == JSONparse(extractJson(req.llm.content))
       IN  IF parseBlockThrows(parsed) THEN callFallback(req.userProfile)
           ELSE Returned(groqPlan(parsed.value.v, req.userProfile))

\* the status a Response has when none is given
DefaultStatus == 200

\* a catch block that answers with an error
catchBlock_Error == [status |-> 500, preflight |-> FALSE, plan |-> Null]

\* lines 338-354: the catch block
catchBlock == [status |-> 200, preflight |-> FALSE,
               plan |-> createFallbackPlan(NullProfile)]

\* the handler passed to serve
serve(req) ==
  IF req.method = "OPTIONS"
  THEN [status |-> DefaultStatus, preflight |-> TRUE, plan |-> Null]
  ELSE LET r == tryBlock(req)
       IN  IF r.threw THEN catchBlock
           ELSE [status |-> DefaultStatus, preflight |-> FALSE, plan |-> r.plan]

NoRequest ==
  [method |-> "none", bodyOk |-> FALSE, userProfile |-> NullProfile,
   groqApiKey |-> NoKey, llm |-> NoLLM]
NoResponse == [status |-> 0, preflight |-> FALSE, plan |-> Null]

PlanInit ==
  /\ ppc = "idle"
  /\ request = NoRequest
  /\ planResponse = NoResponse

PlanIdle ==
  /\ ppc = "off"
  /\ request = NoRequest
  /\ planResponse = NoResponse

\* a request arrives
ReceiveRequest ==
  /\ UNCHANGED notPlan
  /\ ppc = "idle"
  /\ request' \in Requests
  /\ ppc' = "received"
  /\ UNCHANGED planResponse

\* lines 11-13: the CORS preflight
AnswerPreflight ==
  /\ UNCHANGED notPlan
  /\ ppc = "received"
  /\ request.method = "OPTIONS"
  /\ planResponse' = serve(request)
  /\ ppc' = "responded"
  /\ UNCHANGED request

\* lines 15-354: any other request
AnswerRequest ==
  /\ UNCHANGED notPlan
  /\ ppc = "received"
  /\ request.method # "OPTIONS"
  /\ planResponse' = serve(request)
  /\ ppc' = "responded"
  /\ UNCHANGED request

PlanNext == ReceiveRequest \/ AnswerPreflight \/ AnswerRequest

(***************************************************************************)
(* WorkoutPlanGenerator: data                                              *)
(***************************************************************************)
\* most handleProgressChange calls waiting for their upsert at once
MaxInFlight == 2

\* most rows of one user in user_workout_plans
MaxPlanRows == 2

TheUser == "u1"
Titles == {"Plano A"}
Plans == [title : Titles, content : {"v1", "v2"}]
Items == {"Agachamento_0", "Flexao_1"}

\* workoutPlan = null: workoutPlan?.title is undefined, which is falsy
NoPlan == [title |-> "", content |-> ""]

EmptyMap == <<>>

\* progressMap.get(itemIdentifier) || false
isCompleted(map, item) == IF item \in DOMAIN map THEN map[item] ELSE FALSE

\* new Map(prevMap).set(itemIdentifier, status)
mapSet_DropsOthers(map, item, status) == [k \in {item} |-> status]

mapSet(map, item, status) ==
  [i \in DOMAIN map \cup {item} |-> IF i = item THEN status ELSE map[i]]

\* the rows of plan_progress a plan of a user has
progressRows(rows, userId, planId) ==
  {r \in rows : r.user_id = userId /\ r.plan_id = planId}

\* getPlanProgress: the map built from the rows of the plan
getPlanProgress(rows, userId, planId) ==
  LET mine == progressRows(rows, userId, planId)
  IN  [i \in {r.item_identifier : r \in mine} |->
         (CHOOSE r \in mine : r.item_identifier = i).is_completed]

\* two rows with the same (user_id, plan_id, item_identifier)
sameKey(r, s) ==
  /\ r.user_id = s.user_id
  /\ r.plan_id = s.plan_id
  /\ r.item_identifier = s.item_identifier

\* .upsert(progressItem, {onConflict: 'user_id, plan_id, item_identifier'})
upsert(rows, row) == {r \in rows : ~sameKey(r, row)} \cup {row}

\* deletePlanProgress: .delete().eq('user_id', userId).eq('plan_id', planId)
deletePlanProgress(rows, userId, planId) ==
  rows \ progressRows(rows, userId, planId)

\* the effect of lines 196-200, run after every update of the state
tabAfterEffect(plan, tab) == IF plan # NoPlan /\ tab # "plan" THEN "plan" ELSE tab

\* the effect of lines 171-194, run when user or workoutPlan?.title changes:
\* the fetches waiting after the change
loadsAfterEffect(waiting, userId, oldTitle, newTitle) ==
  IF newTitle # oldTitle /\ userId # NULL /\ newTitle # ""
  THEN waiting \cup {newTitle} ELSE waiting

NoEvent == [op |-> "none", plan |-> NoPlan, item |-> "", status |-> FALSE]
Event(op, plan, item, status) ==
  [op |-> op, plan |-> plan, item |-> item, status |-> status]

(***************************************************************************)
(* WorkoutPlanGenerator: the form                                          *)
(*                                                                         *)
(* A text of the form is the sequence of its characters.  Of formData the  *)
(* required fields are kept; the optional ones (availableTime,             *)
(* availableDays, equipment, limitations) have defaults in the request and *)
(* take no part in the validation.                                         *)
(***************************************************************************)
\* longest text typed into 'Descreva seus outros objetivos'
MaxTextLen == 2

TextChars == {" ", "x"}
Texts == {Str(s) : s \in UNION {[1..n -> TextChars] : n \in 0..MaxTextLen}}

\* what an <Input type="number"> can hand to handleInputChange: nothing, an
\* integer, and a fraction written without its leading zero
FieldTexts == {Str(<<>>), Str(<<"3", "0">>), Str(<<".", "5">>)}
Genders == {Str(<<>>), Str(<<"feminino">>)}
FormFitnessLevels == {Str(<<>>), Str(<<"iniciante">>)}

Outros == Str(<<"outros">>)
SaudeGeral == Str(<<"saude_geral">>)
GoalValues == {Str(<<"forca">>), SaudeGeral, Outros}

\* lines 136-147: the form before anything is filled in
BlankForm ==
  [age |-> Str(<<>>), gender |-> Str(<<>>), weight |-> Str(<<>>),
   height |-> Str(<<>>), fitnessLevel |-> Str(<<>>), goals |-> Arr(<<>>)]

\* a form filled in completely
FilledForm ==
  [age |-> Str(<<"3", "0">>), gender |-> Str(<<"feminino">>),
   weight |-> Str(<<"3", "0">>), height |-> Str(<<"3", "0">>),
   fitnessLevel |-> Str(<<"iniciante">>), goals |-> Arr(<<Str(<<"forca">>)>>)]

\* the goal lists the checkboxes can build: no goal twice
FormGoalLists ==
  {Arr(s) : s \in {q \in UNION {[1..n -> GoalValues] : n \in 0..Cardinality(GoalValues)} :
                     \A i, j \in DOMAIN q : q[i] = q[j] => i = j}}

\* lines 123-135: the forms the effect of lines 157-161 can have stored
StoredForms ==
  [age : FieldTexts, gender : Genders, weight : FieldTexts, height : FieldTexts,
   fitnessLevel : FormFitnessLevels, goals : FormGoalLists]

\* Array.prototype.includes on a goal list
goalsInclude(goals, goal) == \E i \in DOMAIN goals.v : goals.v[i] = goal

NaN == [t |-> "NaN"]
isNaN(x) == x = NaN

DigitChars == <<"0", "1", "2", "3", "4", "5", "6", "7", "8", "9">>
isDigit(c) == \E i \in DOMAIN DigitChars : DigitChars[i] = c
digitValue(c) == (CHOOSE i \in DOMAIN DigitChars : DigitChars[i] = c) - 1

\* the digits a text starts with
RECURSIVE leadingDigits(_)
leadingDigits(s) ==
  IF s # <<>> /\ isDigit(Head(s)) THEN <<Head(s)>> \o leadingDigits(Tail(s))
  ELSE <<>>

RECURSIVE digitsValue(_)
digitsValue(ds) ==
  IF ds = <<>> THEN 0
  ELSE 10 * digitsValue(SubSeq(ds, 1, Len(ds) - 1)) + digitValue(ds[Len(ds)])

\* parseInt(text): white space and a sign are skipped, the digits that follow
\* are read up to the first other character, and no digit gives NaN
parseInt(text) ==
  LET s == trimStart(text.v)
      negative == s # <<>> /\ Head(s) = "-"
      unsigned == IF s # <<>> /\ Head(s) \in {"-", "+"} THEN Tail(s) ELSE s
      ds == leadingDigits(unsigned)
  IN IF ds = <<>> THEN NaN
     ELSE Num(IF negative THEN 0 - digitsValue(ds) ELSE digitsValue(ds))

\* lines 312-313: the required fields that !formData[field] finds missing
requiredFields == <<"age", "gender", "weight", "height", "fitnessLevel", "goals">>
missingFields(form) == SelectSeq(requiredFields, LAMBDA field : ~Truthy(form[field]))

\* line 318
invalidNumbers(form) ==
  isNaN(parseInt(form.age)) \/ isNaN(parseInt(form.height))
    \/ isNaN(parseInt(form.weight))

\* lines 333-343: the goals of the request
finalGoals_KeepsOutros(goals, text) ==
  LET withText == IF goalsInclude(goals, Outros) /\ trim(text.v) # <<>>
                  THEN Append(goals.v, Str(<<"outros: ">> \o trim(text.v)))
                  ELSE goals.v
  IN IF withText = <<>> THEN <<SaudeGeral>> ELSE withText

finalGoals(goals, text) ==
  LET filtered == IF goalsInclude(goals, Outros)
                  THEN SelectSeq(goals.v, LAMBDA g : g # Outros)
                  ELSE goals.v
      withText == IF goalsInclude(goals, Outros) /\ trim(text.v) # <<>>
                  THEN Append(filtered, Str(<<"outros: ">> \o trim(text.v)))
                  ELSE filtered
  IN IF withText = <<>> THEN <<SaudeGeral>> ELSE withText

\* lines 333 and 340-341: without 'outros' finalGoals is the array of
\* formData itself, and the push of the default goal lands in it
goalsAfterPush(goals) ==
  IF ~goalsInclude(goals, Outros) /\ goals.v = <<>> THEN Arr(<<SaudeGeral>>)
  ELSE goals

\* lines 345-361: the body of the request, as far as the form decides it
NoBody == [t |-> "none"]
requestData(form, text, userId) ==
  [t |-> "body", age |-> parseInt(form.age), weight |-> parseInt(form.weight),
   height |-> parseInt(form.height), fitness_goals |-> finalGoals(form.goals, text),
   userId |-> userId]

(***************************************************************************)
(* WorkoutPlanGenerator: the component                                     *)
(***************************************************************************)
FrontIdle ==
  /\ user = NULL
  /\ workoutPlan = NoPlan
  /\ progressMap = EmptyMap
  /\ activeTab = "form"
  /\ loading = FALSE
  /\ deleting = FALSE
  /\ user_workout_plans = <<>>
  /\ plan_progress = {}
  /\ toggles = <<>>
  /\ loads = {}
  /\ gpc = "off"
  /\ genOldPlanId = ""
  /\ genPlan = NoPlan
  /\ dpc = "off"
  /\ delPlanId = ""
  /\ lastEvent = NoEvent
  /\ deleteFailed = FALSE
  /\ formData = BlankForm
  /\ otherGoalsText = Str(<<>>)
  /\ invokeBody = NoBody
  /\ genReplaced = {}

\* the component mounts: the user may have a stored plan, which the page
\* may have loaded into workoutPlan, and stored progress for it
FrontInit ==
  /\ user \in {NULL, TheUser}
  /\ user_workout_plans \in {<<>>} \cup {<<p>> : p \in Plans}
  /\ workoutPlan \in {NoPlan} \cup {p \in Plans : user_workout_plans = <<p>>}
  /\ plan_progress \in
       {{[user_id |-> TheUser, plan_id |-> p.title, item_identifier |-> i,
          is_completed |-> done[i]] : i \in I} :
          p \in {q \in Plans : user_workout_plans = <<q>>},
          I \in SUBSET Items, done \in [Items -> BOOLEAN]} \cup {{}}
  /\ progressMap = EmptyMap
  /\ activeTab \in (IF workoutPlan # NoPlan THEN {"plan"} ELSE {"form", "plan"})
  /\ loading = FALSE
  /\ deleting = FALSE
  /\ toggles = <<>>
  /\ loads = loadsAfterEffect({}, user, "", workoutPlan.title)
  /\ gpc = "idle"
  /\ genOldPlanId = ""
  /\ genPlan = NoPlan
  /\ dpc = "idle"
  /\ delPlanId = ""
  /\ lastEvent = NoEvent
  /\ deleteFailed = FALSE
  /\ formData \in {BlankForm, FilledForm}
  /\ otherGoalsText = Str(<<>>)
  /\ invokeBody = NoBody
  /\ genReplaced = {}

\* lines 172-193: a getPlanProgress of loadProgress answers
LoadProgress ==
  /\ UNCHANGED notFront
  /\ \E title \in loads, ok \in BOOLEAN :
       /\ loads' = loads \ {title}
       /\ progressMap' = IF ok THEN getPlanProgress(plan_progress, user, title)
                         ELSE progressMap
       /\ lastEvent' = Event(IF ok THEN "loaded" ELSE "loadFailed",
                             NoPlan, title, FALSE)
  /\ UNCHANGED <<formData, otherGoalsText, invokeBody, genReplaced,
                 deleteFailed, user, workoutPlan, activeTab, loading,
                 deleting, user_workout_plans, plan_progress, toggles, gpc,
                 genOldPlanId, genPlan, dpc, delPlanId>>

\* lines 507-516 and 864-870: a tab trigger or the 'Gerar Novo' button; the
\* plan trigger is disabled without a plan
SelectTab ==
  /\ UNCHANGED notFront
  /\ \E tab \in {"form", "plan"} :
       /\ tab = "plan" => workoutPlan # NoPlan
       /\ activeTab' = tabAfterEffect(workoutPlan, tab)
       /\ lastEvent' = Event("tab", NoPlan, tab, FALSE)
  /\ UNCHANGED <<formData, otherGoalsText, invokeBody, genReplaced,
                 deleteFailed, user, workoutPlan, progressMap, loading,
                 deleting, user_workout_plans, plan_progress, toggles, loads,
                 gpc, genOldPlanId, genPlan, dpc, delPlanId>>

\* the checkboxes of the plan are on screen
planShown == workoutPlan # NoPlan /\ activeTab = "plan"

\* lines 228-244: handleProgressChange up to the await of the upsert
StartToggle ==
  /\ UNCHANGED notFront
  /\ planShown
  /\ Len(toggles) < MaxInFlight
  /\ \E item \in Items :
       LET currentStatus == isCompleted(progressMap, item)
           newStatus     == ~currentStatus
       IN  IF user = NULL \/ workoutPlan.title = ""
           THEN /\ lastEvent' = Event("toggleIgnored", workoutPlan, item, currentStatus)
                /\ UNCHANGED <<progressMap, toggles>>
           ELSE /\ progressMap' = mapSet(progressMap, item, newStatus)
                /\ toggles' = Append(toggles,
                     [user_id |-> user, plan_id |-> workoutPlan.title,
                      item_identifier |-> item, currentStatus |-> currentStatus,
                      is_completed |-> newStatus])
                /\ lastEvent' = Event("toggleStarted", workoutPlan, item, newStatus)
  /\ UNCHANGED <<formData, otherGoalsText, invokeBody, genReplaced,
                 deleteFailed, user, workoutPlan, activeTab, loading,
                 deleting, user_workout_plans, plan_progress, loads, gpc,
                 genOldPlanId, genPlan, dpc, delPlanId>>

\* s without its i-th element
removeAt(s, i) == SubSeq(s, 1, i - 1) \o SubSeq(s, i + 1, Len(s))

\* lines 58-73 and 245-254: the upsert of a handleProgressChange answers
FinishToggle ==
  /\ UNCHANGED notFront
  /\ \E i \in 1..Len(toggles), ok \in BOOLEAN :
       LET call == toggles[i]
           row  == [user_id |-> call.user_id, plan_id |-> call.plan_id,
                    item_identifier |-> call.item_identifier,
                    is_completed |-> call.is_completed]
       IN  /\ toggles' = removeAt(toggles, i)
           /\ IF ok
              THEN /\ plan_progress' = upsert(plan_progress, row)
                   /\ UNCHANGED progressMap
                   /\ lastEvent' = Event("toggleSaved",
                        [title |-> call.plan_id, content |-> ""],
                        call.item_identifier, call.is_completed)
              ELSE /\ progressMap' = mapSet(progressMap, call.item_identifier,
                                            call.currentStatus)
                   /\ UNCHANGED plan_progress
                   /\ lastEvent' = Event("toggleFailed",
                        [title |-> call.plan_id, content |-> ""],
                        call.item_identifier, call.currentStatus)
  /\ UNCHANGED <<formData, otherGoalsText, invokeBody, genReplaced,
                 deleteFailed, user, workoutPlan, activeTab, loading,
                 deleting, user_workout_plans, loads, gpc, genOldPlanId,
                 genPlan, dpc, delPlanId>>

\* lines 306-326: generateWorkoutPlan up to the await of the function; the
\* button is in the form tab and disabled while loading
StartGenerate ==
  /\ UNCHANGED notFront
  /\ activeTab = "form"
  /\ ~loading
  /\ gpc = "idle"
  /\ IF user = NULL \/ missingFields(formData) # <<>> \/ invalidNumbers(formData)
     THEN /\ lastEvent' = Event("generateIgnored", workoutPlan, "", FALSE)
          /\ UNCHANGED <<workoutPlan, progressMap, loading, gpc, genOldPlanId,
                         formData, invokeBody, genReplaced>>
     ELSE /\ loading' = TRUE
          /\ genOldPlanId' = workoutPlan.title
          /\ genReplaced' = {user_workout_plans[i].title : i \in DOMAIN user_workout_plans}
                              \cup ({workoutPlan.title} \ {""})
          /\ workoutPlan' = NoPlan
          /\ progressMap' = EmptyMap
          /\ formData' = [formData EXCEPT !.goals = goalsAfterPush(formData.goals)]
          /\ invokeBody' = requestData(formData, otherGoalsText, user)
          /\ gpc' = "invoke"
          /\ lastEvent' = Event("generateStarted", workoutPlan, "", FALSE)
  /\ UNCHANGED <<otherGoalsText, deleteFailed, user, activeTab, deleting,
                 user_workout_plans, plan_progress, toggles, loads, genPlan,
                 dpc, delPlanId>>

\* what supabase.functions.invoke can answer: an error, no data, data that
\* is no object, an object with neither title nor exercises, and a plan;
\* content stands for the exercises of the plan
FunctionAnswers ==
  {[error |-> TRUE, data |-> Null]}
    \cup {[error |-> FALSE, data |-> d] :
            d \in {Null, Str(<<"text">>), Obj(NoPlan)} \cup {Obj(p) : p \in Plans}}

\* lines 368-369: the answers that make generateWorkoutPlan throw
answerRejected_OnlyErrors(answer) == answer.error

answerRejected(answer) ==
  \/ answer.error
  \/ ~Truthy(answer.data)
  \/ answer.data.t # "object"
  \/ (answer.data.v.title = "" /\ answer.data.v.content = "")

\* lines 372-379: the plan built from the data
planOf(data) ==
  [title |-> IF data.t = "object" /\ data.v.title # "" THEN data.v.title
             ELSE "Plano de Treino Personalizado",
   content |-> IF data.t = "object" THEN data.v.content ELSE ""]

\* lines 364-379 and 401-412: the function answers
InvokeAnswers ==
  /\ UNCHANGED notFront
  /\ gpc = "invoke"
  /\ \E answer \in FunctionAnswers :
       IF ~answerRejected(answer)
       THEN /\ genPlan' = planOf(answer.data)
            /\ gpc' = "saveDelete"
            /\ lastEvent' = Event("planReceived", genPlan', "", FALSE)
            /\ UNCHANGED <<workoutPlan, progressMap, loading, genReplaced>>
       ELSE \* throw, catch, finally
            /\ workoutPlan' = NoPlan
            /\ progressMap' = EmptyMap
            /\ loading' = FALSE
            /\ gpc' = "idle"
            /\ lastEvent' = Event("generateFailed", NoPlan,
                                  IF answer.error THEN "functionError"
                                  ELSE "invalidPlan", FALSE)
            /\ genReplaced' = {}
            /\ UNCHANGED genPlan
  /\ invokeBody' = NoBody
  /\ UNCHANGED <<formData, otherGoalsText, deleteFailed, user, activeTab,
                 deleting, user_workout_plans, plan_progress, toggles, loads,
                 genOldPlanId, dpc, delPlanId>>

\* lines 262-275 and 295-303, 382-385: saveWorkoutPlan deletes the old row,
\* where an error is only logged, and then the progress of the plan in its
\* closure, where an error makes it return null
SaveDeletesOldPlan ==
  /\ UNCHANGED notFront
  /\ gpc = "saveDelete"
  /\ \E deleteOk \in BOOLEAN, progressOk \in BOOLEAN :
       /\ user_workout_plans' = IF deleteOk THEN <<>> ELSE user_workout_plans
       /\ deleteFailed' = (deleteFailed \/ ~deleteOk)
       /\ IF genOldPlanId = ""
          THEN /\ gpc' = "saveInsert"
               /\ lastEvent' = Event(IF deleteOk THEN "oldPlanDeleted"
                                     ELSE "oldPlanDeleteFailed", genPlan, "", FALSE)
               /\ UNCHANGED <<plan_progress, loading, genReplaced>>
          ELSE IF progressOk
          THEN /\ plan_progress' = deletePlanProgress(plan_progress, user, genOldPlanId)
               /\ gpc' = "saveInsert"
               /\ lastEvent' = Event("oldProgressDeleted", genPlan, "", FALSE)
               /\ UNCHANGED <<loading, genReplaced>>
          ELSE /\ loading' = FALSE
               /\ gpc' = "idle"
               /\ lastEvent' = Event("saveFailed", genPlan, "", FALSE)
               /\ genReplaced' = {}
               /\ UNCHANGED plan_progress
  /\ UNCHANGED <<formData, otherGoalsText, invokeBody, user, workoutPlan,
                 progressMap, activeTab, deleting, toggles, loads,
                 genOldPlanId, genPlan, dpc, delPlanId>>

\* lines 277-303 and 381-412: saveWorkoutPlan inserts the new row and
\* generateWorkoutPlan ends
SaveInsertsPlan_StaysLoading ==
  /\ UNCHANGED notFront
  /\ gpc = "saveInsert"
  /\ \E ok \in BOOLEAN :
       IF ok
       THEN /\ Len(user_workout_plans) < MaxPlanRows
            /\ user_workout_plans' = Append(user_workout_plans, genPlan)
            /\ workoutPlan' = genPlan
            /\ activeTab' = "plan"
            /\ loads' = loadsAfterEffect(loads, user, workoutPlan.title, genPlan.title)
            /\ lastEvent' = Event("planSaved", genPlan, "", FALSE)
       ELSE /\ lastEvent' = Event("saveFailed", genPlan, "", FALSE)
            /\ UNCHANGED <<user_workout_plans, workoutPlan, activeTab, loads>>
  /\ loading' = loading
  /\ genReplaced' = {}
  /\ gpc' = "idle"
  /\ UNCHANGED <<formData, otherGoalsText, invokeBody, deleteFailed, user,
                 progressMap, deleting, plan_progress, toggles, genOldPlanId,
                 genPlan, dpc, delPlanId>>

\* lines 277-303 and 381-412: saveWorkoutPlan inserts the new row and
\* generateWorkoutPlan ends, with setLoading(false) on every path
SaveInsertsPlan ==
  /\ UNCHANGED notFront
  /\ gpc = "saveInsert"
  /\ \E ok \in BOOLEAN :
       IF ok
       THEN /\ Len(user_workout_plans) < MaxPlanRows
            /\ user_workout_plans' = Append(user_workout_plans, genPlan)
            /\ workoutPlan' = genPlan
            /\ activeTab' = "plan"
            /\ loads' = loadsAfterEffect(loads, user, workoutPlan.title, genPlan.title)
            /\ lastEvent' = Event("planSaved", genPlan, "", FALSE)
       ELSE /\ lastEvent' = Event("saveFailed", genPlan, "", FALSE)
            /\ UNCHANGED <<user_workout_plans, workoutPlan, activeTab, loads>>
  /\ loading' = FALSE
  /\ genReplaced' = {}
  /\ gpc' = "idle"
  /\ UNCHANGED <<formData, otherGoalsText, invokeBody, deleteFailed, user,
                 progressMap, deleting, plan_progress, toggles, genOldPlanId,
                 genPlan, dpc, delPlanId>>

\* lines 415-421: deleteWorkoutPlan up to its first await; the button is in
\* the plan tab and disabled while deleting
StartDelete ==
  /\ UNCHANGED notFront
  /\ planShown
  /\ ~deleting
  /\ dpc = "idle"
  /\ IF user = NULL \/ workoutPlan.title = ""
     THEN /\ lastEvent' = Event("deleteIgnored", workoutPlan, "", FALSE)
          /\ UNCHANGED <<deleting, dpc, delPlanId>>
     ELSE /\ deleting' = TRUE
          /\ delPlanId' = workoutPlan.title
          /\ dpc' = "progress"
          /\ lastEvent' = Event("deleteStarted", workoutPlan, "", FALSE)
  /\ UNCHANGED <<formData, otherGoalsText, invokeBody, genReplaced,
                 deleteFailed, user, workoutPlan, progressMap, activeTab,
                 loading, user_workout_plans, plan_progress, toggles, loads,
                 gpc, genOldPlanId, genPlan>>

\* lines 423-426 and 453-462: deleteWorkoutPlan deletes the progress
DeleteDeletesProgress ==
  /\ UNCHANGED notFront
  /\ dpc = "progress"
  /\ \E ok \in BOOLEAN :
       IF ok
       THEN /\ plan_progress' = deletePlanProgress(plan_progress, user, delPlanId)
            /\ dpc' = "plan"
            /\ lastEvent' = Event("progressDeleted", NoPlan, delPlanId, FALSE)
            /\ UNCHANGED deleting
       ELSE /\ deleting' = FALSE
            /\ dpc' = "idle"
            /\ lastEvent' = Event("deleteFailed", NoPlan, delPlanId, FALSE)
            /\ UNCHANGED plan_progress
  /\ UNCHANGED <<formData, otherGoalsText, invokeBody, genReplaced,
                 deleteFailed, user, workoutPlan, progressMap, activeTab,
                 loading, user_workout_plans, toggles, loads, gpc,
                 genOldPlanId, genPlan, delPlanId>>

\* lines 428-451 and 460-462: deleteWorkoutPlan deletes the row and clears
\* the local plan, also when the delete answered with an error
DeleteDeletesPlan ==
  /\ UNCHANGED notFront
  /\ dpc = "plan"
  /\ \E ok \in BOOLEAN :
       /\ user_workout_plans' = IF ok THEN <<>> ELSE user_workout_plans
       /\ deleteFailed' = (deleteFailed \/ ~ok)
       /\ lastEvent' = Event(IF ok THEN "planDeleted" ELSE "planDeleteFailed",
                             NoPlan, delPlanId, FALSE)
  /\ workoutPlan' = NoPlan
  /\ progressMap' = EmptyMap
  /\ activeTab' = "form"
  /\ deleting' = FALSE
  /\ dpc' = "idle"
  /\ UNCHANGED <<formData, otherGoalsText, invokeBody, genReplaced, user,
                 loading, plan_progress, toggles, loads, gpc, genOldPlanId,
                 genPlan, delPlanId>>

FrontNext ==
  \/ LoadProgress
  \/ SelectTab
  \/ StartToggle
  \/ FinishToggle
  \/ StartGenerate
  \/ InvokeAnswers
  \/ SaveDeletesOldPlan
  \/ SaveInsertsPlan
  \/ StartDelete
  \/ DeleteDeletesProgress
  \/ DeleteDeletesPlan

(***************************************************************************)
(* WorkoutPlanGenerator: filling in the form                               *)
(*                                                                         *)
(* generateWorkoutPlan reads formData and otherGoalsText before its first  *)
(* await and never again, so the handlers of the form are taken between    *)
(* generations only.                                                       *)
(***************************************************************************)
formShown == activeTab = "form" /\ gpc = "idle"

\* lines 202-204: handleInputChange(field, value)
handleInputChange ==
  /\ UNCHANGED notFront
  /\ formShown
  /\ \/ \E field \in {"age", "weight", "height"}, value \in FieldTexts :
          formData' = [formData EXCEPT ![field] = value]
     \/ \E value \in Genders : formData' = [formData EXCEPT !.gender = value]
     \/ \E value \in FormFitnessLevels :
          formData' = [formData EXCEPT !.fitnessLevel = value]
  /\ lastEvent' = Event("formChanged", NoPlan, "", FALSE)
  /\ UNCHANGED otherGoalsText
  /\ UNCHANGED <<user, workoutPlan, progressMap, activeTab, loading, deleting,
                 user_workout_plans, plan_progress, toggles, loads, gpc,
                 genOldPlanId, genPlan, dpc, delPlanId, deleteFailed, invokeBody,
                 genReplaced>>

\* lines 206-219 and 632-636: handleGoalChange(goal, checked), called by
\* the checkbox of the goal with the opposite of what it shows
handleGoalChange ==
  /\ UNCHANGED notFront
  /\ formShown
  /\ \E goal \in GoalValues :
       IF ~goalsInclude(formData.goals, goal)
       THEN /\ formData' = [formData EXCEPT !.goals = Arr(Append(formData.goals.v, goal))]
            /\ UNCHANGED otherGoalsText
       ELSE /\ formData' = [formData EXCEPT !.goals =
                              Arr(SelectSeq(formData.goals.v, LAMBDA g : g # goal))]
            /\ otherGoalsText' = IF goal = Outros THEN Str(<<>>) ELSE otherGoalsText
  /\ lastEvent' = Event("formChanged", NoPlan, "", FALSE)
  /\ UNCHANGED <<user, workoutPlan, progressMap, activeTab, loading, deleting,
                 user_workout_plans, plan_progress, toggles, loads, gpc,
                 genOldPlanId, genPlan, dpc, delPlanId, deleteFailed, invokeBody,
                 genReplaced>>

\* lines 645-656: the text input of 'outros', shown while it is selected
setOtherGoalsText ==
  /\ UNCHANGED notFront
  /\ formShown
  /\ goalsInclude(formData.goals, Outros)
  /\ otherGoalsText' \in Texts
  /\ otherGoalsText' # otherGoalsText
  /\ lastEvent' = Event("formChanged", NoPlan, "", FALSE)
  /\ UNCHANGED formData
  /\ UNCHANGED <<user, workoutPlan, progressMap, activeTab, loading, deleting,
                 user_workout_plans, plan_progress, toggles, loads, gpc,
                 genOldPlanId, genPlan, dpc, delPlanId, deleteFailed, invokeBody,
                 genReplaced>>

\* the component mounts on its form with no stored plan; formData is what
\* localStorage holds from an earlier visit, or blank
FormInit ==
  /\ user \in {NULL, TheUser}
  /\ workoutPlan = NoPlan
  /\ progressMap = EmptyMap
  /\ activeTab = "form"
  /\ loading = FALSE
  /\ deleting = FALSE
  /\ user_workout_plans = <<>>
  /\ plan_progress = {}
  /\ toggles = <<>>
  /\ loads = {}
  /\ gpc = "idle"
  /\ genOldPlanId = ""
  /\ genPlan = NoPlan
  /\ dpc = "idle"
  /\ delPlanId = ""
  /\ lastEvent = NoEvent
  /\ deleteFailed = FALSE
  /\ formData \in StoredForms
  /\ otherGoalsText = Str(<<>>)
  /\ invokeBody = NoBody
  /\ genReplaced = {}

FormNext ==
  \/ handleInputChange
  \/ handleGoalChange
  \/ setOtherGoalsText
  \/ StartGenerate
  \/ InvokeAnswers
  \/ SaveDeletesOldPlan
  \/ SaveInsertsPlan

(***************************************************************************)
(* WorkoutStreak: dates                                                    *)
(***************************************************************************)
\* the local days of the model are 0..StreakDays-1, day 0 is Tue Oct 27 2026
StreakDays == 8

Days == 0..(StreakDays - 1)
NoShortDay == -1

\* Date.prototype.toDateString: weekday, month, day of month, year
weekdayNames == <<"Sun", "Mon", "Tue", "Wed", "Thu", "Fri", "Sat">>
toDateString(d) ==
  LET n == 27 + d
  IN  [wd   |-> weekdayNames[((2 + d) % 7) + 1],
       mon  |-> IF n <= 31 THEN "Oct" ELSE IF n <= 61 THEN "Nov" ELSE "Dec",
       dd   |-> IF n <= 31 THEN n ELSE IF n <= 61 THEN n - 31 ELSE n - 61,
       yyyy |-> 2026]

\* the order of the code units of the names in the date strings
alphabetical == <<"Apr", "Aug", "Dec", "Feb", "Fri", "Jan", "Jul", "Jun", "Mar",
                  "May", "Mon", "Nov", "Oct", "Sat", "Sep", "Sun", "Thu", "Tue",
                  "Wed">>
rank(name) == CHOOSE i \in 1..Len(alphabetical) : alphabetical[i] = name

\* the default comparison of Array.prototype.sort on two date strings: the
\* strings have the same layout, 'Www Mmm DD YYYY', so they compare field
\* by field from the left
stringLess(a, b) ==
  \/ rank(a.wd) < rank(b.wd)
  \/ a.wd = b.wd /\ rank(a.mon) < rank(b.mon)
  \/ a.wd = b.wd /\ a.mon = b.mon /\ a.dd < b.dd
  \/ a.wd = b.wd /\ a.mon = b.mon /\ a.dd = b.dd /\ a.yyyy < b.yyyy

\* [...new Set(workoutDates)].sort()
sortStrings(S) ==
  LET RECURSIVE asc(_)
      asc(R) == IF R = {} THEN <<>>
                ELSE LET m == CHOOSE x \in R : \A y \in R \ {x} : stringLess(x, y)
                     IN  <<m>> \o asc(R \ {m})
  IN  asc(S)

\* hours from the start of day 0 to the local midnight of day d
midnight(short, d) == 24 * d - (IF short # NoShortDay /\ d > short THEN 1 ELSE 0)

\* new Date(dateString).getTime(), in hours: the local midnight of the day
getTime(short, str) ==
  midnight(short, CHOOSE d \in 0..(StreakDays + 1) : toDateString(d) = str)

\* the local day an instant falls on
dayOfHour(short, h) ==
  CHOOSE d \in -2..(StreakDays + 1) :
    midnight(short, d) <= h /\ h < midnight(short, d + 1)

\* Math.floor((currentDate.getTime() - previousDate.getTime()) / (1000*60*60*24))
diffDays(short, currentDate, previousDate) ==
  (getTime(short, currentDate) - getTime(short, previousDate)) \div 24

\* lines 959-984
calculateCurrentStreak(short, day, hour, dates) ==
  IF Len(dates) = 0 THEN 0
  ELSE
    LET dateNow   == midnight(short, day) + hour
        todayStr  == toDateString(dayOfHour(short, dateNow))
        yesterday == dayOfHour(short, dateNow - 24)
        lastWorkoutDate == dates[Len(dates)]
        RECURSIVE loop(_, _)
        loop(i, streak) ==
          IF i < 1 THEN streak
          ELSE IF diffDays(short, dates[i + 1], dates[i]) = 1
               THEN loop(i - 1, streak + 1)
               ELSE streak
    IN  IF /\ lastWorkoutDate # todayStr
           /\ ~(yesterday \in 0..(StreakDays + 1)
                /\ lastWorkoutDate = toDateString(yesterday))
        THEN 0
        ELSE loop(Len(dates) - 1, 1)

\* lines 986-1005
calculateBestStreak(short, dates) ==
  IF Len(dates) = 0 THEN 0
  ELSE
    LET RECURSIVE loop(_, _, _)
        loop(i, bestStreak, currentStreak) ==
          IF i > Len(dates) THEN bestStreak
          ELSE IF diffDays(short, dates[i], dates[i - 1]) = 1
               THEN loop(i + 1,
                         IF currentStreak + 1 > bestStreak
                         THEN currentStreak + 1 ELSE bestStreak,
                         currentStreak + 1)
               ELSE loop(i + 1, bestStreak, 1)
    IN  loop(2, 1, 1)

(***************************************************************************)
(* WorkoutStreak: the component                                            *)
(***************************************************************************)
NoStreak == [currentStreak |-> 0, bestStreak |-> 0, fetched |-> FALSE]

StreakIdle ==
  /\ spc = "off"
  /\ streakUser = NULL
  /\ completedDays = {}
  /\ today = 0
  /\ nowHour = 0
  /\ shortDay = NoShortDay
  /\ streakData = NoStreak
  /\ streakLoading = FALSE

\* the component mounts; created_at of a row is not later than now
StreakInit ==
  /\ spc = "mounted"
  /\ streakUser \in {NULL, TheUser}
  /\ today \in Days
  /\ nowHour \in {0, 12}
  /\ shortDay \in {NoShortDay} \cup Days
  /\ completedDays \in SUBSET (0..today)
  /\ streakData = NoStreak
  /\ streakLoading = TRUE

\* lines 911-957: the effect calls fetchStreakData and the query answers
\* with rows, with data null, or throws
fetchStreakData ==
  /\ UNCHANGED notStreak
  /\ spc = "mounted"
  /\ streakUser # NULL
  /\ spc' = "done"
  /\ \E answer \in {"rows", "null", "throws"} :
       /\ (answer = "rows" /\ completedDays # {}) =>
            LET workoutDates == {toDateString(d) : d \in completedDays}
                uniqueDates  == sortStrings(workoutDates)
            IN  streakData' =
                  [currentStreak |->
                     calculateCurrentStreak(shortDay, today, nowHour, uniqueDates),
                   bestStreak |-> calculateBestStreak(shortDay, uniqueDates),
                   fetched |-> TRUE]
       /\ (answer = "rows" /\ completedDays = {}) =>
            streakData' = [NoStreak EXCEPT !.fetched = TRUE]
       /\ answer = "null" => streakData' = NoStreak
       /\ answer = "throws" => UNCHANGED streakData
  /\ streakLoading' = FALSE
  /\ UNCHANGED <<streakUser, completedDays, today, nowHour, shortDay>>

StreakNext == fetchStreakData

(***************************************************************************)
(* GamificationSection: levels                                             *)
(***************************************************************************)
\* largest XP the level display is computed for
MaxXP == 1600

\* lines 345-352
levels ==
  <<[level |-> 1, title |-> "Iniciante", xpRequired |-> 0],
    [level |-> 2, title |-> "Guerreiro", xpRequired |-> 100],
    [level |-> 3, title |-> "Atleta", xpRequired |-> 300],
    [level |-> 4, title |-> "Veterano", xpRequired |-> 600],
    [level |-> 5, title |-> "Mestre", xpRequired |-> 1000],
    [level |-> 6, title |-> "Lenda", xpRequired |-> 1500]>>

\* the null of getNextLevel
NoLevel == [level |-> 0, title |-> "", xpRequired |-> 0]

\* [...levels].reverse().find(level => xp >= level.xpRequired) || levels[0]
getCurrentLevelData(xp) ==
  LET found == {i \in 1..Len(levels) : xp >= levels[i].xpRequired}
  IN  IF found = {} THEN levels[1]
      ELSE levels[CHOOSE i \in found : \A j \in found : j <= i]

\* a lookup that also takes a level whose threshold equals xp
getNextLevel_AtThreshold(xp) ==
  LET found == {i \in 1..Len(levels) : xp <= levels[i].xpRequired}
  IN  IF found = {} THEN NoLevel
      ELSE levels[CHOOSE i \in found : \A j \in found : i <= j]

\* levels.find(level => xp < level.xpRequired) || null
getNextLevel(xp) ==
  LET found == {i \in 1..Len(levels) : xp < levels[i].xpRequired}
  IN  IF found = {} THEN NoLevel
      ELSE levels[CHOOSE i \in found : \A j \in found : i <= j]

\* lines 565-567: progressToNext as the fraction num / den
progressToNext(xp) ==
  LET currentLevelData == getCurrentLevelData(xp)
      nextLevel == getNextLevel(xp)
  IN  IF nextLevel # NoLevel
      THEN [num |-> (xp - currentLevelData.xpRequired) * 100,
            den |-> nextLevel.xpRequired - currentLevelData.xpRequired]
      ELSE [num |-> 100, den |-> 1]

NoView == [currentLevelData |-> NoLevel, nextLevel |-> NoLevel,
           progressToNext |-> [num |-> 0, den |-> 1]]

LevelIdle ==
  /\ lpc = "off"
  /\ userXP = 0
  /\ levelView = NoView

LevelInit ==
  /\ lpc = "xp"
  /\ userXP \in 0..MaxXP
  /\ levelView = NoView

\* lines 565-567: a render of the section
RenderLevel ==
  /\ UNCHANGED notLevel
  /\ lpc = "xp"
  /\ lpc' = "rendered"
  /\ levelView' = [currentLevelData |-> getCurrentLevelData(userXP),
                   nextLevel |-> getNextLevel(userXP),
                   progressToNext |-> progressToNext(userXP)]
  /\ UNCHANGED userXP

LevelNext == RenderLevel

(***************************************************************************)
(* OnboardingChecklist                                                     *)
(***************************************************************************)
\* most checkCompletedSteps runs waiting at an await at once
MaxRuns == 1

StepIds == {"complete-profile", "first-workout", "nutrition-plan",
            "record-progress"}

\* a row of user_profiles with nothing filled in
BlankProfile ==
  [t |-> "object", full_name |-> Str(<<>>), age |-> Null, weight |-> Null]

\* rows of user_profiles with a name, with an age, with a weight
FilledProfiles ==
  {[t |-> "object", full_name |-> Str(<<"Ana">>), age |-> Null, weight |-> Null],
   [t |-> "object", full_name |-> Str(<<>>), age |-> Num(30), weight |-> Null],
   [t |-> "object", full_name |-> Null, age |-> Num(0), weight |-> Num(70)]}

\* the logged-in users, by user.user_metadata?.full_name
OnboardingUsers ==
  {[t |-> "object", full_name |-> name] : name \in {Undef, Str(<<"Ana">>)}}

\* data?.field
optional(data, field) == IF data.t = "object" THEN data[field] ELSE Undef

\* the data of .select('id')...limit(1).maybeSingle() on a table
idRow == [t |-> "object"]
maybeRow(exists, ok) == IF exists /\ ok THEN idRow ELSE Null

\* a run before its first await answered
NewRun == [pos |-> 0, profileData |-> Null, workoutPlan |-> Null,
           progressData |-> Null]

NoRun == [done |-> FALSE, profileData |-> Null, workoutPlan |-> Null,
          progressData |-> Null, nutritionConversations |-> Null]

\* lines 124-155: the completed flag of a step after the run, with the
\* cases of 'nutrition-plan' and 'record-progress' exchanged
completedAfter_Swapped(id, completed, metadataName, profileData, workoutPlanData, progressData, nutritionConversations) ==
  CASE id = "complete-profile" ->
         \/ Truthy(optional(profileData, "full_name"))
         \/ Truthy(optional(profileData, "age"))
         \/ Truthy(optional(profileData, "weight"))
         \/ Truthy(metadataName)
    [] id = "first-workout" -> Truthy(workoutPlanData)
    [] id = "nutrition-plan" -> Truthy(progressData)
    [] id = "record-progress" -> Truthy(nutritionConversations)
    [] OTHER -> completed

\* lines 124-155: the completed flag of a step after the run
completedAfter(id, completed, metadataName, profileData, workoutPlanData, progressData, nutritionConversations) ==
  CASE id = "complete-profile" ->
         \/ Truthy(optional(profileData, "full_name"))
         \/ Truthy(optional(profileData, "age"))
         \/ Truthy(optional(profileData, "weight"))
         \/ Truthy(metadataName)
    [] id = "first-workout" -> Truthy(workoutPlanData)
    [] id = "nutrition-plan" -> Truthy(nutritionConversations)
    [] id = "record-progress" -> Truthy(progressData)
    [] OTHER -> completed

\* lines 187-190
completedSteps == Cardinality({id \in StepIds : steps[id]})
totalSteps == Cardinality(StepIds)
allStepsCompleted == completedSteps = totalSteps

\* lines 192 and 204-208: the close button is on screen
closeButtonOffered == opc = "on" /\ isVisible /\ allStepsCompleted

OnboardingIdle ==
  /\ opc = "off"
  /\ onbUser = Null
  /\ isVisible = FALSE
  /\ steps = [id \in StepIds |-> FALSE]
  /\ runs = <<>>
  /\ user_profiles = Null
  /\ profileForm = BlankProfile
  /\ hasWorkoutPlan = FALSE
  /\ hasProgress = FALSE
  /\ hasNutrition = FALSE
  /\ lastRun = NoRun

\* the component mounts; with a user the effect of lines 61-65 starts a run
OnboardingInit ==
  /\ opc = "on"
  /\ onbUser \in {Null} \cup OnboardingUsers
  /\ isVisible \in BOOLEAN
  /\ steps = [id \in StepIds |-> FALSE]
  /\ runs = IF onbUser = Null THEN <<>> ELSE <<NewRun>>
  /\ profileForm \in FilledProfiles
  /\ user_profiles \in {Null, BlankProfile, profileForm}
  /\ hasWorkoutPlan \in BOOLEAN
  /\ hasProgress \in BOOLEAN
  /\ hasNutrition \in BOOLEAN
  /\ lastRun = NoRun

\* lines 68-77 and 180-183: the interval or the timer of handleStepAction
\* calls checkCompletedSteps
StartCheck ==
  /\ UNCHANGED notOnboarding
  /\ opc = "on"
  /\ onbUser # Null
  /\ isVisible
  /\ Len(runs) < MaxRuns
  /\ runs' = Append(runs, NewRun)
  /\ UNCHANGED <<opc, onbUser, isVisible, steps, user_profiles, profileForm,
                 hasWorkoutPlan, hasProgress, hasNutrition, lastRun>>

\* lines 85-107: one of the first three queries of a run answers with its
\* data, with data null after an error, or throws
ReadTable ==
  /\ UNCHANGED notOnboarding
  /\ \E i \in 1..Len(runs), answer \in {"data", "error", "throws"} :
       LET run == runs[i]
           ok  == answer = "data"
           next ==
             CASE run.pos = 0 ->
                    [run EXCEPT !.pos = 1,
                       !.profileData = IF ok THEN user_profiles ELSE Null]
               [] run.pos = 1 ->
                    [run EXCEPT !.pos = 2,
                       !.workoutPlan = maybeRow(hasWorkoutPlan, ok)]
               [] run.pos = 2 ->
                    [run EXCEPT !.pos = 3,
                       !.progressData = maybeRow(hasProgress, ok)]
       IN  /\ run.pos < 3
           /\ runs' = IF answer = "throws" THEN removeAt(runs, i)
                      ELSE [runs EXCEPT ![i] = next]
  /\ UNCHANGED <<opc, onbUser, isVisible, steps, user_profiles, profileForm,
                 hasWorkoutPlan, hasProgress, hasNutrition, lastRun>>

\* lines 109-158: the last query of a run answers and the run sets the steps
FinishCheck ==
  /\ UNCHANGED notOnboarding
  /\ \E i \in 1..Len(runs), answer \in {"data", "error", "throws"} :
       LET run == runs[i]
           nutritionConversations == maybeRow(hasNutrition, answer = "data")
       IN  /\ run.pos = 3
           /\ runs' = removeAt(runs, i)
           /\ IF answer = "throws"
              THEN UNCHANGED <<steps, lastRun>>
              ELSE /\ steps' = [id \in StepIds |->
                         completedAfter(id, steps[id], onbUser.full_name, run.profileData,
                                        run.workoutPlan, run.progressData,
                                        nutritionConversations)]
                   /\ lastRun' = [done |-> TRUE,
                                  profileData |-> run.profileData,
                                  workoutPlan |-> run.workoutPlan,
                                  progressData |-> run.progressData,
                                  nutritionConversations |-> nutritionConversations]
  /\ UNCHANGED <<opc, onbUser, isVisible, user_profiles, profileForm,
                 hasWorkoutPlan, hasProgress, hasNutrition>>

\* the user's rows change while the checklist is shown
TablesChange ==
  /\ UNCHANGED notOnboarding
  /\ opc = "on"
  /\ \/ /\ user_profiles' \in {Null, BlankProfile, profileForm} \ {user_profiles}
        /\ UNCHANGED <<hasWorkoutPlan, hasProgress, hasNutrition>>
     \/ /\ hasWorkoutPlan' = ~hasWorkoutPlan
        /\ UNCHANGED <<user_profiles, hasProgress, hasNutrition>>
     \/ /\ hasProgress' = ~hasProgress
        /\ UNCHANGED <<user_profiles, hasWorkoutPlan, hasNutrition>>
     \/ /\ hasNutrition' = ~hasNutrition
        /\ UNCHANGED <<user_profiles, hasWorkoutPlan, hasProgress>>
  /\ UNCHANGED <<opc, onbUser, isVisible, steps, runs, profileForm, lastRun>>

OnboardingNext ==
  \/ StartCheck
  \/ ReadTable
  \/ FinishCheck
  \/ TablesChange

(***************************************************************************)
(* GamificationSection: achievements                                       *)
(***************************************************************************)
\* most completed plan_progress rows of the user
MaxItems == 4

\* last reading of the clock, in half days
MaxClock == 3

\* largest total_xp the model stores
MaxStoredXP == 400

\* most times the model counts one reward going into total_xp
MaxRewards == 2

\* lines 362-417: id and xpReward, in the order of the list
defaultAchievements ==
  <<[id |-> "first-workout", xpReward |-> 50],
    [id |-> "streak-3", xpReward |-> 75],
    [id |-> "workout-10", xpReward |-> 100],
    [id |-> "streak-7", xpReward |-> 150],
    [id |-> "workout-25", xpReward |-> 200],
    [id |-> "streak-30", xpReward |-> 300]>>

AchievementIds == {defaultAchievements[i].id : i \in 1..Len(defaultAchievements)}

NoGamRow == [t |-> "null"]

includes(list, id) == \E i \in 1..Len(list) : list[i] = id

\* lines 429-435
shouldUnlock(id, newWorkouts, newStreak) ==
  \/ id = "first-workout" /\ newWorkouts >= 1
  \/ id = "streak-3" /\ newStreak >= 3
  \/ id = "workout-10" /\ newWorkouts >= 10
  \/ id = "streak-7" /\ newStreak >= 7
  \/ id = "workout-25" /\ newWorkouts >= 25
  \/ id = "streak-30" /\ newStreak >= 30

\* lines 424-447: the forEach over defaultAchievements; the result is the new
\* list and the XP to add
RECURSIVE unlockLoop(_, _, _, _, _)
unlockLoop(i, newUnlockedAchievements, xpToAdd, newWorkouts, newStreak) ==
  IF i > Len(defaultAchievements)
  THEN [list |-> newUnlockedAchievements, xpToAdd |-> xpToAdd]
  ELSE LET achievement == defaultAchievements[i]
       IN  IF /\ ~includes(newUnlockedAchievements, achievement.id)
              /\ shouldUnlock(achievement.id, newWorkouts, newStreak)
           THEN unlockLoop(i + 1, Append(newUnlockedAchievements, achievement.id),
                           xpToAdd + achievement.xpReward, newWorkouts, newStreak)
           ELSE unlockLoop(i + 1, newUnlockedAchievements, xpToAdd,
                           newWorkouts, newStreak)

\* new Date().toISOString().split('T')[0]: the day of a clock reading
dateOf(time) == time \div 2

\* lines 419-463: the row updateGamificationData upserts, with the ids it
\* unlocked
updateGamificationData(unlocked, time, newWorkouts, newStreak, newXP) ==
  LET loop    == unlockLoop(1, unlocked, 0, newWorkouts, newStreak)
      finalXP == newXP + loop.xpToAdd
  IN  [t |-> "object",
       total_xp |-> finalXP,
       current_level |-> getCurrentLevelData(finalXP).level,
       current_streak |-> newStreak,
       total_workouts_completed |-> newWorkouts,
       achievements_unlocked |-> loop.list,
       last_activity_date |-> dateOf(time),
       rewarded |-> {loop.list[k] : k \in (Len(unlocked) + 1)..Len(loop.list)}]

max(a, b) == IF a > b THEN a ELSE b
min(a, b) == IF a < b THEN a ELSE b

\* lines 497-511: streak from the last activity; the date is read as the
\* midnight that starts its day; daysApart is diffDays, the Math.ceil of
\* the distance in days
streakOnLoad(row, items, time) ==
  IF row # NoGamRow
  THEN LET diffTime == time - 2 * row.last_activity_date
           daysApart == (diffTime + 1) \div 2
       IN  IF daysApart <= 1
           THEN IF items > 0 THEN min(row.current_streak + 1, 30)
                ELSE row.current_streak
           ELSE 0
  ELSE IF items > 0 THEN 1 ELSE 0

NoUpsert == [t |-> "null"]

GamificationIdle ==
  /\ mpc = "off"
  /\ gamUser = NULL
  /\ user_gamification = NoGamRow
  /\ completedItems = 0
  /\ clock = 0
  /\ unlockedAchievements = <<>>
  /\ gamXP = 0
  /\ closureUnlocked = <<>>
  /\ gamificationData = NoGamRow
  /\ pendingUpsert = NoUpsert
  /\ rewardCount = [id \in AchievementIds |-> 0]

\* a user without a user_gamification row opens the section
GamificationInit ==
  /\ mpc = "readRow"
  /\ gamUser \in {NULL, TheUser}
  /\ user_gamification = NoGamRow
  /\ completedItems \in 0..MaxItems
  /\ clock = 0
  /\ unlockedAchievements = <<>>
  /\ gamXP = 0
  /\ closureUnlocked = <<>>
  /\ gamificationData = NoGamRow
  /\ pendingUpsert = NoUpsert
  /\ rewardCount = [id \in AchievementIds |-> 0]

\* lines 478-489: the query on user_gamification answers
ReadGamification ==
  /\ UNCHANGED notGamification
  /\ mpc = "readRow"
  /\ gamUser # NULL
  /\ \E ok \in BOOLEAN :
       gamificationData' = IF ok THEN user_gamification ELSE NoGamRow
  /\ mpc' = "readProgress"
  /\ UNCHANGED <<gamUser, user_gamification, completedItems, clock,
                 unlockedAchievements, gamXP, closureUnlocked, pendingUpsert,
                 rewardCount>>

\* lines 491-545 and 419-447: the query on plan_progress answers; the load
\* sets the state from the row and, with new progress, calls
\* updateGamificationData, which goes up to its upsert
ReadProgress ==
  /\ UNCHANGED notGamification
  /\ mpc = "readProgress"
  /\ \E ok \in BOOLEAN :
       LET items       == IF ok THEN completedItems ELSE 0
           newWorkouts == items \div 3
           streak      == streakOnLoad(gamificationData, items, clock)
           row         == gamificationData
           update      ==
             IF row # NoGamRow
             THEN \/ newWorkouts > row.total_workouts_completed
                  \/ streak > row.current_streak
             ELSE newWorkouts > 0 \/ streak > 0
           upsertRow   ==
             IF row # NoGamRow
             THEN updateGamificationData(closureUnlocked, clock,
                    max(row.total_workouts_completed, newWorkouts),
                    max(row.current_streak, streak), row.total_xp)
             ELSE updateGamificationData(closureUnlocked, clock, newWorkouts,
                                         streak, 0)
       IN  /\ gamXP' = IF row # NoGamRow THEN row.total_xp ELSE gamXP
           /\ unlockedAchievements' =
                IF row # NoGamRow THEN row.achievements_unlocked ELSE <<>>
           /\ IF update
              THEN /\ upsertRow.total_xp <= MaxStoredXP
                   /\ pendingUpsert' = upsertRow
                   /\ mpc' = "upsert"
              ELSE /\ pendingUpsert' = NoUpsert
                   /\ mpc' = "loaded"
  /\ UNCHANGED <<gamUser, user_gamification, completedItems, clock,
                 closureUnlocked, gamificationData, rewardCount>>

\* lines 452-472: the upsert answers
UpsertAnswers ==
  /\ UNCHANGED notGamification
  /\ mpc = "upsert"
  /\ \E ok \in BOOLEAN :
       IF ok
       THEN /\ \A id \in pendingUpsert.rewarded : rewardCount[id] < MaxRewards
            /\ user_gamification' =
                 [f \in DOMAIN pendingUpsert \ {"rewarded"} |-> pendingUpsert[f]]
            /\ gamXP' = pendingUpsert.total_xp
            /\ unlockedAchievements' = pendingUpsert.achievements_unlocked
            /\ rewardCount' = [id \in AchievementIds |->
                 IF id \in pendingUpsert.rewarded THEN rewardCount[id] + 1
                 ELSE rewardCount[id]]
       ELSE UNCHANGED <<user_gamification, gamXP, unlockedAchievements,
                        rewardCount>>
  /\ pendingUpsert' = NoUpsert
  /\ mpc' = "loaded"
  /\ UNCHANGED <<gamUser, completedItems, clock, closureUnlocked,
                 gamificationData>>

\* lines 335-342 and 475-477: the section is opened again; a new instance
\* starts with the initial state and runs the effect
Remount ==
  /\ UNCHANGED notGamification
  /\ mpc = "loaded"
  /\ mpc' = "readRow"
  /\ unlockedAchievements' = <<>>
  /\ gamXP' = 0
  /\ closureUnlocked' = <<>>
  /\ gamificationData' = NoGamRow
  /\ UNCHANGED <<gamUser, user_gamification, completedItems, clock,
                 pendingUpsert, rewardCount>>

\* lines 475-477 and 561-563: the user prop changes to a new object of the
\* same user; the effect runs again in the render that holds the state
UserObjectChanges ==
  /\ UNCHANGED notGamification
  /\ mpc = "loaded"
  /\ mpc' = "readRow"
  /\ closureUnlocked' = unlockedAchievements
  /\ gamificationData' = NoGamRow
  /\ UNCHANGED <<gamUser, user_gamification, completedItems, clock,
                 unlockedAchievements, gamXP, pendingUpsert, rewardCount>>

\* the user completes one more item of the plan
ItemCompleted ==
  /\ UNCHANGED notGamification
  /\ mpc # "off"
  /\ gamUser # NULL
  /\ completedItems < MaxItems
  /\ completedItems' = completedItems + 1
  /\ UNCHANGED <<mpc, gamUser, user_gamification, clock, unlockedAchievements,
                 gamXP, closureUnlocked, gamificationData, pendingUpsert,
                 rewardCount>>

\* half a day passes
ClockTicks ==
  /\ UNCHANGED notGamification
  /\ mpc # "off"
  /\ gamUser # NULL
  /\ clock < MaxClock
  /\ clock' = clock + 1
  /\ UNCHANGED <<mpc, gamUser, user_gamification, completedItems,
                 unlockedAchievements, gamXP, closureUnlocked, gamificationData,
                 pendingUpsert, rewardCount>>

GamificationNext ==
  \/ ReadGamification
  \/ ReadProgress
  \/ UpsertAnswers
  \/ Remount
  \/ UserObjectChanges
  \/ ItemCompleted
  \/ ClockTicks

(***************************************************************************)
(* The specifications: one component runs, the others stay off             *)
(***************************************************************************)
InitCleanup == CleanupInit /\ PlanIdle /\ FallbackIdle /\ FrontIdle /\ StreakIdle
  /\ LevelIdle /\ OnboardingIdle /\ GamificationIdle

SpecCleanup == InitCleanup /\ [][CleanupNext]_vars

InitPlan == CleanupIdle /\ PlanInit /\ FallbackIdle /\ FrontIdle /\ StreakIdle
  /\ LevelIdle /\ OnboardingIdle /\ GamificationIdle

SpecPlan == InitPlan /\ [][PlanNext]_vars

InitFallback == CleanupIdle /\ PlanIdle /\ FallbackInit /\ FrontIdle /\ StreakIdle
  /\ LevelIdle /\ OnboardingIdle /\ GamificationIdle

SpecFallback == InitFallback /\ [][FallbackNext]_vars

InitFront == CleanupIdle /\ PlanIdle /\ FallbackIdle /\ FrontInit /\ StreakIdle
  /\ LevelIdle /\ OnboardingIdle /\ GamificationIdle

SpecFront == InitFront /\ [][FrontNext]_vars

InitForm == CleanupIdle /\ PlanIdle /\ FallbackIdle /\ FormInit /\ StreakIdle
  /\ LevelIdle /\ OnboardingIdle /\ GamificationIdle

SpecForm == InitForm /\ [][FormNext]_vars

\* generateWorkoutPlan and deleteWorkoutPlan alone: loading and deleting are
\* written by these two handlers only.  Every await of theirs is a request
\* to supabase, which answers with data or with an error.
BusyNext ==
  \/ StartGenerate
  \/ InvokeAnswers
  \/ SaveDeletesOldPlan
  \/ SaveInsertsPlan
  \/ StartDelete
  \/ DeleteDeletesProgress
  \/ DeleteDeletesPlan

SpecBusy ==
  /\ InitFront
  /\ [][BusyNext]_vars
  /\ WF_vars(InvokeAnswers)
  /\ WF_vars(SaveDeletesOldPlan)
  /\ WF_vars(SaveInsertsPlan)
  /\ WF_vars(DeleteDeletesProgress)
  /\ WF_vars(DeleteDeletesPlan)

InitStreak ==
  CleanupIdle /\ PlanIdle /\ FallbackIdle /\ FrontIdle /\ StreakInit
  /\ LevelIdle /\ OnboardingIdle /\ GamificationIdle

SpecStreak == InitStreak /\ [][StreakNext]_vars

InitLevel ==
  /\ CleanupIdle /\ PlanIdle /\ FallbackIdle /\ FrontIdle /\ StreakIdle
  /\ LevelInit /\ OnboardingIdle /\ GamificationIdle

SpecLevel == InitLevel /\ [][LevelNext]_vars

InitOnboarding ==
  /\ CleanupIdle /\ PlanIdle /\ FallbackIdle /\ FrontIdle /\ StreakIdle
  /\ LevelIdle /\ OnboardingInit /\ GamificationIdle

SpecOnboarding == InitOnboarding /\ [][OnboardingNext]_vars

InitGamification ==
  /\ CleanupIdle /\ PlanIdle /\ FallbackIdle /\ FrontIdle /\ StreakIdle
  /\ LevelIdle /\ OnboardingIdle /\ GamificationInit

SpecGamification == InitGamification /\ [][GamificationNext]_vars

(***************************************************************************)
(* Properties of cleanup-expired-accounts (SpecCleanup)                    *)
(***************************************************************************)
\* C1: no account deleted by a run owned a subscription row with status
\* active, expired or cancelled, however many such rows it had.
C1_PaidAccountNeverDeleted ==
  \A d \in deletedLog : d.paidRows = 0

\* C2: every account a run deleted was created strictly earlier than 48
\* hours before the run's start, on the direct path and on the admin path.
C2_DeletedOnlyIfOlderThanLimit ==
  \A d \in deletedLog : d.created_at < now - ExpireHours

\* C2 witness: a run on the admin path deleted an account and left an
\* unpaid account created exactly 48 hours before its start.
C2_Witness ==
  /\ cpc = "done"
  /\ path = "admin"
  /\ deletedLog # {}
  /\ \E r \in authUsers :
       /\ r.created_at = now - ExpireHours
       /\ paidRowCount(subscriptions[r.id]) = 0

\* C3: when a run ends and none of its calls failed (the direct query apart,
\* whose failure only selects the admin path), every account older than the
\* limit that is left owns a paid subscription, and the deletedCount of the
\* response is the number of accounts the run deleted.
C3_UnpaidExpiredAllDeleted ==
  (cpc = "done" /\ ~callFailed) =>
    /\ \A r \in authUsers :
         r.created_at < now - ExpireHours =>
           paidRowCount(subscriptions[r.id]) > 0
    /\ cleanupResponse.status = 200
    /\ cleanupResponse.deletedCount = Cardinality(deletedLog)

\* C3 witness: a run without a failed call ended having deleted an account
\* and kept another.
C3_Witness ==
  /\ cpc = "done"
  /\ ~callFailed
  /\ deletedLog # {}
  /\ authUsers # {}

(***************************************************************************)
(* Properties of generate-workout-plan (SpecPlan)                          *)
(***************************************************************************)
Answered == ppc = "responded" /\ request.method # "OPTIONS"

\* the key is missing or blank
C4_KeyBlank(req) ==
  \/ ~req.groqApiKey.defined
  \/ \A i \in 1..Len(req.groqApiKey.chars) : req.groqApiKey.chars[i] = " "

\* the content of the model is empty, no JSON, or lacks a title or an
\* exercises array
C4_ContentUnusable(req) ==
  LET c == req.llm.content
  IN  \/ c.text # "text"
      \/ c.fence \in {"json_unclosed", "plain_unclosed"}
      \/ c.payload.t # "object"
      \/ ~Truthy(c.payload.v.title)
      \/ c.payload.v.exercises.t # "array"

\* the request makes the handler call createFallbackPlan(userProfile)
C4_FallbackCalled(req) ==
  /\ req.bodyOk
  /\ \/ C4_KeyBlank(req)
     \/ /\ req.userProfile.present
        /\ \/ req.llm.fetch = "notOk"
           \/ req.llm.fetch = "ok" /\ C4_ContentUnusable(req)

\* the request makes the handler throw
C4_Exception(req) ==
  \/ ~req.bodyOk
  \/ ~C4_KeyBlank(req) /\ ~req.userProfile.present
  \/ ~C4_KeyBlank(req) /\ req.llm.fetch \in {"throws", "badJson"}
  \/ /\ C4_FallbackCalled(req)
     /\ req.userProfile.present
     /\ req.userProfile.fitness_goals # <<>>
     /\ req.userProfile.fitness_goals[1] \in InheritedKeys

\* C4: every request other than OPTIONS is answered with status 200 and a
\* plan; when the key is missing or blank, the model answers non-OK, its
\* content is empty, no JSON or lacks a title or an exercises array, or an
\* exception is thrown, the plan is what createFallbackPlan returns (for the
\* profile, or for null after an exception) and its source is 'fallback'.
C4_AlwaysAnswersWithPlan ==
  Answered =>
    /\ planResponse.status = 200
    /\ {"title", "exercises", "source"} \subseteq DOMAIN planResponse.plan
    /\ planResponse.plan.source \in {Str(<<"fallback">>), Str(<<"groq_api">>)}
    /\ C4_Exception(request) =>
         planResponse.plan = createFallbackPlan(NullProfile)
    /\ (C4_FallbackCalled(request) /\ ~C4_Exception(request)) =>
         planResponse.plan = createFallbackPlan(request.userProfile)
    /\ (C4_FallbackCalled(request) \/ C4_Exception(request)) =>
         planResponse.plan.source = Str(<<"fallback">>)

\* C4 witness: a request whose key is set and whose body has no userProfile
\* was answered after the exception.
C4_Witness ==
  /\ Answered
  /\ request.bodyOk
  /\ ~C4_KeyBlank(request)
  /\ ~request.userProfile.present
  /\ planResponse.plan.source = Str(<<"fallback">>)

\* C5: every plan the handler returns has duration_weeks = 12.
C5_AlwaysTwelveWeeks ==
  Answered => planResponse.plan.duration_weeks = Num(12)

ValidDifficulties == {Str(<<"iniciante">>), Str(<<"intermediario">>), Str(<<"avancado">>)}

\* C8: every plan the handler returns has a non-empty title, an exercises
\* array and a difficulty_level among iniciante, intermediario, avancado; a
\* plan of the model keeps a valid difficulty_level and gets
\* mapFitnessLevelToDifficulty(fitness_level) in place of any other, and
\* that function returns one of the three levels for every input.
C8_PlanShape ==
  /\ Answered =>
       /\ Truthy(planResponse.plan.title)
       /\ IsArray(planResponse.plan.exercises)
       /\ planResponse.plan.difficulty_level \in ValidDifficulties
       /\ planResponse.plan.source = Str(<<"groq_api">>) =>
            LET given == request.llm.content.payload.v.difficulty_level
            IN  planResponse.plan.difficulty_level =
                  IF given \in ValidDifficulties THEN given
                  ELSE Str(<<mapFitnessLevelToDifficulty(
                                request.userProfile.fitness_level)>>)
  /\ \A l \in FitnessLevels \cup {"pouco_ativo", "iniciante", "ativo",
                                  "intermediario", "muito_ativo"} :
       Str(<<mapFitnessLevelToDifficulty(l)>>) \in ValidDifficulties

\* C8 witness: a plan of the model with the difficulty 'expert', for a
\* profile of level 'moderado', was returned.
C8_Witness ==
  /\ Answered
  /\ planResponse.plan.source = Str(<<"groq_api">>)
  /\ request.llm.content.payload.v.difficulty_level = Str(<<"expert">>)
  /\ request.userProfile.fitness_level = "moderado"

(***************************************************************************)
(* Properties of createFallbackPlan (SpecFallback)                         *)
(***************************************************************************)
\* C6: two calls whose profiles agree on fitness_level, on the first goal
\* and on available_days return the same plan, whatever the other fields.
C6_FallbackDeterministic ==
  (fpc = 2 /\ SameFallbackInput(profile1, profile2)) =>
    result1.plan = result2.plan

\* C6 witness: both calls were made, for profiles that differ in age, in
\* session_duration and in the goals after the first.
C6_Witness ==
  /\ fpc = 2
  /\ profile1.age # profile2.age
  /\ profile1.session_duration # profile2.session_duration
  /\ profile1.fitness_goals # profile2.fitness_goals

\* the entries of one workout in a list of exercises: week w, day d of n
C7_Block(exercises, n, w, d) ==
  LET base == ((w - 1) * n + (d - 1)) * 4
  IN  [k \in 1..4 |-> exercises[base + k]]

\* C7: for available_days n in 1..7 the exercises of the fallback plan are,
\* for each week 1..12 and each day 1..n in order, a warm-up entry and three
\* exercise entries of that week and of one workout letter (48*n entries);
\* within a week the n letters are defined and distinct.
C7_FallbackStructure ==
  (fpc >= 1 /\ profile1.available_days \in 1..7) =>
    LET n == profile1.available_days
        ex == result1.plan.exercises.v
        letter(w, d) == C7_Block(ex, n, w, d)[1].name[3]
    IN  /\ Len(ex) = 48 * n
        /\ \A w \in 1..12, d \in 1..n :
             LET block == C7_Block(ex, n, w, d)
             IN  /\ block[1].name[1] = weekNames[w]
                 /\ block[1].name[2] = " SEMANA - Aquecimento (Treino "
                 /\ letter(w, d) \in {"A", "B", "C", "D", "E", "F", "G"}
                 /\ \A k \in 2..4 :
                      /\ block[k].name[1] = weekNames[w]
                      /\ block[k].name[2] = " SEMANA - Treino "
                      /\ block[k].name[3] = letter(w, d)
        /\ \A w \in 1..12, d1 \in 1..n, d2 \in 1..n :
             d1 # d2 => letter(w, d1) # letter(w, d2)

\* C7 witness: the fallback plan for seven days a week was built.
C7_Witness ==
  /\ fpc >= 1
  /\ profile1.available_days = 7
  /\ Len(result1.plan.exercises.v) = 336

(***************************************************************************)
(* WorkoutPlanGenerator: the stored plan and the progress of its items     *)
(***************************************************************************)
\* C9: right after saveWorkoutPlan returned a plan, user_workout_plans holds
\* exactly one row of the user and it is that plan, whatever the delete of
\* the old row answered; while no delete on user_workout_plans has answered
\* with an error the user has at most one row.
C9_OneStoredPlanRow ==
  /\ lastEvent.op = "planSaved" => user_workout_plans = <<lastEvent.plan>>
  /\ ~deleteFailed => Len(user_workout_plans) <= 1

\* the rows of plan_progress with the key of a handleProgressChange call
C10_RowsOf(rows, userId, planId, item) ==
  {r \in progressRows(rows, userId, planId) : r.item_identifier = item}

\* C10: with a user and a plan, handleProgressChange(item, current) sets the
\* local status of the item to ~current and sends an upsert of (user, plan
\* title, item, ~current); when an upsert has succeeded the stored
\* is_completed of its key equals the local status of the item;
\* plan_progress has at most one row per key; without a user or a plan the
\* call changes nothing.
C10_ToggleStep ==
  /\ lastEvent'.op = "toggleStarted" =>
       LET item == lastEvent'.item
           current == isCompleted(progressMap, item)
       IN  /\ user # NULL /\ workoutPlan # NoPlan
           /\ isCompleted(progressMap', item) = ~current
           /\ toggles' = Append(toggles,
                 [user_id |-> user, plan_id |-> workoutPlan.title,
                  item_identifier |-> item, currentStatus |-> current,
                  is_completed |-> ~current])
  /\ lastEvent'.op = "toggleSaved" =>
       LET rows == C10_RowsOf(plan_progress', user, lastEvent'.plan.title,
                              lastEvent'.item)
       IN  /\ rows # {}
           /\ \A r \in rows :
                r.is_completed = isCompleted(progressMap', lastEvent'.item)
  /\ \A r \in plan_progress', q \in plan_progress' : sameKey(r, q) => r = q
  /\ lastEvent'.op = "toggleIgnored" =>
       /\ user = NULL \/ workoutPlan = NoPlan
       /\ UNCHANGED <<progressMap, plan_progress, toggles, workoutPlan,
                      user_workout_plans>>

C10_ToggleConsistent == [][C10_ToggleStep]_vars

(***************************************************************************)
(* WorkoutStreak: the streaks                                              *)
(***************************************************************************)
\* the number of consecutive days of S that end at day d
RECURSIVE C11_RunEndingAt(_, _)
C11_RunEndingAt(S, d) ==
  IF d \notin S THEN 0 ELSE 1 + C11_RunEndingAt(S, d - 1)

C11_LastDay(S) == CHOOSE d \in S : \A e \in S : e <= d

\* C11: after fetchStreakData read the rows, currentStreak is the number of
\* consecutive calendar days with a completed item that end at the most
\* recent such day, if that day is today or yesterday, and 0 otherwise.
C11_CurrentStreak ==
  (spc = "done" /\ streakData.fetched) =>
    streakData.currentStreak =
      IF completedDays = {} THEN 0
      ELSE IF C11_LastDay(completedDays) \in {today, today - 1}
           THEN C11_RunEndingAt(completedDays, C11_LastDay(completedDays))
           ELSE 0

\* C12: after fetchStreakData read the rows, bestStreak is the length of the
\* longest run of consecutive calendar days among the days with a completed
\* item: 0 when there is none and at least 1 otherwise.
C12_BestStreak ==
  (spc = "done" /\ streakData.fetched) =>
    /\ completedDays = {} => streakData.bestStreak = 0
    /\ completedDays # {} =>
         /\ streakData.bestStreak >= 1
         /\ \E d \in completedDays :
              streakData.bestStreak = C11_RunEndingAt(completedDays, d)
         /\ \A d \in completedDays :
              streakData.bestStreak >= C11_RunEndingAt(completedDays, d)

(***************************************************************************)
(* GamificationSection: levels                                             *)
(***************************************************************************)
C13_Thresholds == {0, 100, 300, 600, 1000, 1500}

\* C13: for every XP >= 0 the current level is the one with the greatest
\* threshold <= xp among 0, 100, 300, 600, 1000, 1500; the next level is the
\* one with the least threshold > xp and is null exactly when xp >= 1500;
\* a non-null next level has the current number plus 1 and progressToNext
\* is in [0, 100).
C13_LevelLookup ==
  lpc = "rendered" =>
    LET cur  == levelView.currentLevelData
        next == levelView.nextLevel
        prog == levelView.progressToNext
        all  == {levels[i] : i \in 1..Len(levels)}
    IN  /\ {l.xpRequired : l \in all} = C13_Thresholds
        /\ cur \in all
        /\ cur.xpRequired <= userXP
        /\ \A l \in all : l.xpRequired <= userXP => l.xpRequired <= cur.xpRequired
        /\ (next = NoLevel) <=> (userXP >= 1500)
        /\ next # NoLevel =>
             /\ next \in all
             /\ next.xpRequired > userXP
             /\ \A l \in all : l.xpRequired > userXP => next.xpRequired <= l.xpRequired
             /\ next.level = cur.level + 1
             /\ prog.den > 0
             /\ 0 <= prog.num
             /\ prog.num < 100 * prog.den

\* C13 witness: the display was rendered for an XP equal to a threshold below
\* the last one.
C13_Witness ==
  /\ lpc = "rendered"
  /\ userXP = 1000
  /\ levelView.currentLevelData.level = 5
  /\ levelView.nextLevel.level = 6
  /\ levelView.progressToNext.num = 0

(***************************************************************************)
(* OnboardingChecklist: the steps                                          *)
(***************************************************************************)
\* a field that is filled in: not missing, not null, not empty, not zero
C14_Has(value) == value \notin {Undef, Null, Str(<<>>), Num(0)}

C15_RewardedAtMostOnce ==
  /\ \A id \in AchievementIds : rewardCount[id] <= 1
  /\ (pendingUpsert # NoUpsert /\ user_gamification # NoGamRow) =>
       \A id \in pendingUpsert.rewarded :
         ~includes(user_gamification.achievements_unlocked, id)

(***************************************************************************)
(* WorkoutPlanGenerator: the form tab and the replacement of a plan        *)
(***************************************************************************)
\* C16: when a plan exists, selecting the form tab makes the form tab the
\* active tab, and the form tab stays active until another tab is selected
\* or a new plan is set.
C16_Step ==
  /\ (workoutPlan # NoPlan /\ lastEvent'.op = "tab" /\ lastEvent'.item = "form")
       => activeTab' = "form"
  /\ (activeTab = "form" /\ activeTab' # "form")
       => lastEvent'.op \in {"tab", "planSaved"}

C16_FormTabStays == [][C16_Step]_vars

\* C17: when generateWorkoutPlan succeeds while the user had a plan P, no
\* plan_progress rows remain for (user, P.title), the stored plan is the new
\* one, and the local progress map is empty.
C17_Step ==
  (gpc = "saveInsert" /\ lastEvent'.op = "planSaved" /\ genReplaced # {}) =>
    /\ \A row \in plan_progress' :
         ~(row.user_id = user /\ row.plan_id \in genReplaced)
    /\ user_workout_plans' = <<genPlan>>
    /\ progressMap' = EmptyMap

C17_ReplacesPlanAndProgress == [][C17_Step]_vars

(***************************************************************************)
(* WorkoutPlanGenerator: the request of generateWorkoutPlan (SpecForm)     *)
(***************************************************************************)
\* what C18 requires of a call that reaches the backend: a logged-in user,
\* every required field filled in, at least one goal, and figures in age,
\* height and weight
C18_Required ==
  /\ user # NULL
  /\ \A field \in {"age", "gender", "weight", "height", "fitnessLevel"} :
       formData[field].v # <<>>
  /\ formData.goals.v # <<>>
  /\ \A field \in {"age", "height", "weight"} : parseInt(formData[field]) # NaN

\* C18: generateWorkoutPlan sends its request only if a user is logged in,
\* the required fields are filled in (at least one goal selected) and age,
\* height and weight parse as integers; otherwise it sends nothing and leaves
\* loading and the current plan alone.
C18_Step ==
  /\ (invokeBody = NoBody /\ invokeBody' # NoBody) => C18_Required
  /\ (gpc = "idle" /\ lastEvent'.op \in {"generateIgnored", "generateStarted"}
        /\ ~C18_Required)
       => /\ invokeBody' = NoBody
          /\ loading' = loading
          /\ workoutPlan' = workoutPlan
          /\ progressMap' = progressMap

C18_RequestOnlyIfValid == [][C18_Step]_vars

\* C19: the fitness_goals a request carries are never empty and never hold
\* the literal 'outros': 'outros' is replaced by 'outros: <text>' when the
\* trimmed free text is non-empty and dropped otherwise, and an empty result
\* becomes ['saude_geral'].
C19_Step ==
  (invokeBody = NoBody /\ invokeBody' # NoBody) =>
    LET sent == invokeBody'.fitness_goals
        others == SelectSeq(formData.goals.v, LAMBDA g : g # Outros)
        text == trim(otherGoalsText.v)
        replaced == IF goalsInclude(formData.goals, Outros) /\ text # <<>>
                    THEN others \o <<Str(<<"outros: ">> \o text)>>
                    ELSE others
    IN /\ sent # <<>>
       /\ \A i \in DOMAIN sent : sent[i] # Outros
       /\ sent = IF replaced = <<>> THEN <<SaudeGeral>> ELSE replaced

C19_GoalsOfRequest == [][C19_Step]_vars

\* C19 witness: a request in flight whose goals came from 'forca' and 'outros'
\* with the free text ' x'
C19_Witness ==
  /\ invokeBody # NoBody
  /\ gpc = "invoke"
  /\ goalsInclude(formData.goals, Outros)
  /\ otherGoalsText = Str(<<" ", "x">>)
  /\ invokeBody.fitness_goals = <<Str(<<"forca">>), Str(<<"outros: ", "x">>)>>

(***************************************************************************)
(* WorkoutPlanGenerator: the rollback of handleProgressChange (SpecFront)  *)
(***************************************************************************)
\* C20: when the upsert of handleProgressChange(item, current) fails, the
\* local status of item becomes current, the opposite of the status the
\* upsert carried, and the local status of every other item stays as it was.
C20_Step ==
  lastEvent'.op = "toggleFailed" =>
    \E i \in DOMAIN toggles :
      LET call == toggles[i]
      IN /\ toggles' = removeAt(toggles, i)
         /\ lastEvent'.item = call.item_identifier
         /\ call.item_identifier \in DOMAIN progressMap'
         /\ progressMap'[call.item_identifier] = ~call.is_completed
         /\ \A other \in Items \ {call.item_identifier} :
              /\ other \in DOMAIN progressMap' <=> other \in DOMAIN progressMap
              /\ isCompleted(progressMap', other) = isCompleted(progressMap, other)

C20_RollbackRestoresItem == [][C20_Step]_vars

\* C20 witness: the upsert that was to complete Agachamento_0 failed, the item
\* is open again and Flexao_1 is still completed
C20_Witness ==
  /\ lastEvent.op = "toggleFailed"
  /\ lastEvent.item = "Agachamento_0"
  /\ lastEvent.status = FALSE
  /\ "Agachamento_0" \in DOMAIN progressMap
  /\ ~progressMap["Agachamento_0"]
  /\ isCompleted(progressMap, "Flexao_1")

(***************************************************************************)
(* WorkoutPlanGenerator: loading and deleting (SpecBusy)                   *)
(***************************************************************************)
\* C21: a generateWorkoutPlan call that set loading to true eventually sets
\* it back to false, and a deleteWorkoutPlan call that set deleting to true
\* eventually sets it back to false, whatever its requests answer.
C21_BusyEnds == (loading ~> ~loading) /\ (deleting ~> ~deleting)

\* C21 witness: saveWorkoutPlan returned null and loading is false again
C21_Witness ==
  /\ lastEvent.op = "saveFailed"
  /\ gpc = "idle"
  /\ ~loading

(***************************************************************************)
(* WorkoutPlanGenerator: failures of generateWorkoutPlan (SpecFront)       *)
(***************************************************************************)
\* C22: a generateWorkoutPlan call whose backend invocation fails or returns
\* no plan ends with no local plan and an empty progress map, and neither
\* its start nor its end deletes or inserts anything in user_workout_plans
\* or plan_progress; a call goes on to save only with a plan that was
\* returned.
C22_Step ==
  /\ (gpc = "idle" /\ gpc' = "invoke") =>
       /\ user_workout_plans' = user_workout_plans
       /\ plan_progress' = plan_progress
  /\ (gpc = "invoke" /\ gpc' # "invoke") =>
       \/ /\ lastEvent'.op = "planReceived"
          /\ genPlan' \in Plans
       \/ /\ lastEvent'.op = "generateFailed"
          /\ gpc' = "idle"
          /\ workoutPlan' = NoPlan
          /\ progressMap' = EmptyMap
          /\ user_workout_plans' = user_workout_plans
          /\ plan_progress' = plan_progress

C22_FailedInvokeTouchesNothing == [][C22_Step]_vars

\* C22 witness: the function returned an object with neither title nor
\* exercises, and the call ended with the stored plan and its progress in
\* place
C22_Witness ==
  /\ lastEvent.op = "generateFailed"
  /\ lastEvent.item = "invalidPlan"
  /\ workoutPlan = NoPlan
  /\ user_workout_plans # <<>>
  /\ plan_progress # {}

\* C23: when the insert of saveWorkoutPlan fails and it returns null, the
\* plan rows the user had stored when the generation started are still in
\* user_workout_plans.
C23_Step ==
  (gpc = "saveInsert" /\ lastEvent'.op = "saveFailed") =>
    \A title \in genReplaced :
      \E i \in DOMAIN user_workout_plans' : user_workout_plans'[i].title = title

C23_SaveAllOrNothing == [][C23_Step]_vars

(***************************************************************************)
(* WorkoutPlanGenerator: deleteWorkoutPlan (SpecFront)                     *)
(***************************************************************************)
\* C24: when deleteWorkoutPlan clears the local plan and reports the plan
\* and its progress as removed, the user has no row in user_workout_plans
\* and no plan_progress row of that plan.
C24_Step ==
  (dpc = "plan" /\ lastEvent'.op \in {"planDeleted", "planDeleteFailed"}) =>
    /\ workoutPlan' = NoPlan
    /\ progressMap' = EmptyMap
    /\ activeTab' = "form"
    /\ user_workout_plans' = <<>>
    /\ progressRows(plan_progress', user, delPlanId) = {}

C24_ReportedDeleteIsDone == [][C24_Step]_vars

=============================================================================
